---------------------------- MODULE Spec2Model ----------------------------
(*
  A state-machine model of evo-coach: the workout decision routes
  (accept / reject), the Garmin sync operations (activities, daily health,
  running fitness) and the sync route that drives them.

  Every route handler and sync operation is an async function; it is modelled
  as a process whose steps are the stretches of code between two awaited I/O
  calls (persistence calls, external Garmin calls).  Outcomes of I/O calls
  (a rejected persistence call, a failed login, a thrown external call, the
  shape of an external response) are drawn with \E at the step that awaits
  them.
*)
EXTENDS Integers, Sequences, FiniteSets, TLC

VARIABLES
    users,          \* users table: garminConnected, garminOauthToken, lastSyncAt
    workouts,       \* workouts table: userId, status, garminWorkoutId
    req,            \* accept and reject requests in flight, one per slot
    resp,           \* the last request that ended: its response and what it did
    uploadCalls,    \* per workout: number of adapter uploadWorkout calls made
    readings,       \* daily_health_readings table, keyed by <<userId, day>>
    health,         \* the running / last syncDailyHealthData call
    activities,     \* activities table: a set of rows
    external,       \* what the adapter's getActivities returns for the range
    act,            \* the running / last syncUserActivities call and its log
    fitness,        \* user_running_fitness table: a set of rows
    fit,            \* the running / last syncUserRunningFitness call
    peer,           \* a second syncUserRunningFitness call, concurrent with fit
    unit,           \* the function under evaluation: its inputs and its result
    sync            \* the POST /api/garmin/sync request

workoutVars == <<workouts, req, resp, uploadCalls>>
healthVars == <<readings, health>>
activityVars == <<activities, external, act>>
fitnessVars == <<fitness, fit, peer>>

vars == <<users, workouts, req, resp, uploadCalls, readings, health,
          activities, external, act, fitness, fit, peer, sync, unit>>

------------------------------------------------------------------------
(* Bounds *)

MaxRequests == 2        \* request slots that may be in flight together
MaxUploadCalls == 2     \* cap on uploadWorkout calls recorded per workout

MaxDay == 2             \* calendar days 1..MaxDay
MaxActivities == 2      \* length of the list getActivities returns
MaxActivityRuns == 2    \* syncUserActivities calls in one behaviour

Users == {1, 2}
WorkoutIds == {1}
ReqIds == 1..MaxRequests

NULL == "null"

------------------------------------------------------------------------
(* Messages.  A message is a string; the code only ever inspects a message
   through case-insensitive substring tests, so a message is characterised
   by the needles its lower-cased text contains. *)

MsgNotConnected == "Garmin not connected."
MsgInvalidSession == "Stored Garmin session is invalid. Please reconnect Garmin."
MsgAuth == "Invalid Garmin email or password."
MsgRateLimit == "Garmin rate limit reached. Please retry later."
MsgNetwork == "Could not connect to Garmin right now."

\* Raw error texts thrown by the external garmin-connect client.
RawErrors ==
    { "Request failed with status code 401",
      "429 Too Many Requests",
      "network error",
      "socket hang up",
      "Invalid workout payload" }

Needles(msg) ==
    CASE msg = MsgNotConnected -> {"not connected", "connect"}
      [] msg = MsgInvalidSession -> {"invalid", "reconnect", "connect"}
      [] msg = MsgAuth -> {"invalid"}
      [] msg = MsgRateLimit -> {}
      [] msg = MsgNetwork -> {"connect"}
      [] msg = "Request failed with status code 401" -> {"401"}
      [] msg = "429 Too Many Requests" -> {"429", "too many"}
      [] msg = "network error" -> {"network"}
      [] msg = "Invalid workout payload" -> {"invalid"}
      [] msg = "Too many failed authentication attempts" -> {"too many", "authentication"}
      [] msg = "Could not CONNECT: 429" -> {"connect", "429"}
      [] msg = "Invalid network credential" -> {"invalid", "network", "credential"}
      [] msg = "No fitness profile found. Please sync Garmin data first." ->
            {"fitness profile", "sync garmin"}
      [] msg = "Invalid request payload." -> {"invalid", "invalid request"}
      [] msg = "Unauthorized" -> {"unauthorized"}
      [] msg = "Rate limit exceeded" -> {"rate limit"}
      [] msg = "Request timed out." -> {"timed out"}
      [] msg = "Connection timeout" -> {"connect", "timeout"}
      [] \E provider \in {"openrouter", "anthropic"} :
            msg = "AI provider rate limit reached (" \o provider \o "). Please retry soon." ->
            {"rate limit"}
      [] \E provider \in {"openrouter", "anthropic"} :
            msg = "AI provider timed out (" \o provider \o "). Please retry." ->
            {"timed out"}
      [] msg = "AI provider authentication failed (openrouter). Update OPENROUTER_API_KEY in .env.local." ->
            {"authentication"}
      [] msg = "AI provider authentication failed (anthropic). Update ANTHROPIC_API_KEY in .env.local." ->
            {"authentication"}
      [] OTHER -> {}

\* String.prototype.includes on the lower-cased message
Includes(msg, needle) == needle \in Needles(msg)


------------------------------------------------------------------------
(* JSON values returned by the external client.  t is the JavaScript type:
   "undefined", "null", "number", "string" (numeric is set when Number(v) is
   finite), "array", "object" (f: its own properties).  Numbers are fixed
   point with one decimal: v = 705 stands for 70.5. *)

Undefined == [t |-> "undefined"]
JNull == [t |-> "null"]
Num(n) == [t |-> "number", v |-> n]
Str(x) == [t |-> "string", v |-> x, numeric |-> FALSE]
NumStr(n) == [t |-> "string", n |-> n, numeric |-> TRUE]
Obj(f) == [t |-> "object", f |-> f]
Arr(items) == [t |-> "array", items |-> items]
Thrown(message) == [t |-> "throw", message |-> message]

\* asObject(value): the object, or null for anything else
IsObject(value) == value.t = "object"

\* source[key], undefined when the value is no object or lacks the key
Get(value, key) ==
    IF IsObject(value) /\ key \in DOMAIN value.f THEN value.f[key] ELSE Undefined

\* asNumber(value): <<n>> for a finite number or a numeric string, <<>> for
\* undefined
asNumber(value) ==
    IF value.t = "number" THEN <<value.v>>
    ELSE IF value.t = "string" /\ value.numeric THEN <<value.n>>
    ELSE <<>>

\* Math.trunc of a fixed-point number, as a whole number
Trunc(n) == IF n >= 0 THEN n \div 10 ELSE -((-n) \div 10)

\* asInteger(value): Math.trunc of asNumber
asInteger(value) == IF asNumber(value) = <<>> THEN <<>> ELSE <<Trunc(asNumber(value)[1])>>

\* asString(value)
asString(value) ==
    IF value.t # "string" THEN <<>>
    ELSE IF value.numeric THEN <<value.n>> ELSE <<value.v>>

Returned(value) == [t |-> "return", value |-> value]

\* throw of an instance of the class name ("Error", "GarminCapabilityError"),
\* or of a value that is no Error (name "value")
Raise(name, message, status) ==
    [t |-> "throw", name |-> name, message |-> message, status |-> status]

------------------------------------------------------------------------
(* Token encryption: src/server/encryption.ts.  A string is a sequence of
   UTF-16 code units; the units that matter are a letter outside ASCII, the
   two halves of a surrogate pair, U+FFFD, and four ASCII texts taken as one
   unit each: the JSON text of a stored payload ("payload"), of a payload of
   another provider ("other"), of a payload whose credentials lack the
   password ("nopass"), and a text that is no JSON ("x").  AES-256-GCM under
   the configured key is a keystream added to the bytes and a tag computed
   from the nonce and the ciphertext. *)

IV_LENGTH == 12
AUTH_TAG_LENGTH == 16
HEADER_LENGTH == IV_LENGTH + AUTH_TAG_LENGTH

CodeUnits == {"payload", "other", "nopass", "x", "e-acute", "hi", "lo", "fffd"}

\* Buffer.from(text, "utf8"): a surrogate without its other half is encoded
\* as U+FFFD (EF BF BD)
utf8Encode(text) ==
    LET RECURSIVE encode(_)
        encode(i) ==
            IF i > Len(text) THEN <<>>
            ELSE IF text[i] = "hi" /\ i < Len(text) /\ text[i + 1] = "lo"
              THEN <<240, 159, 152, 128>> \o encode(i + 2)
            ELSE (CASE text[i] = "payload" -> <<1>>
                    [] text[i] = "other" -> <<2>>
                    [] text[i] = "nopass" -> <<3>>
                    [] text[i] = "x" -> <<120>>
                    [] text[i] = "e-acute" -> <<195, 169>>
                    [] OTHER -> <<239, 191, 189>>) \o encode(i + 1)
    IN encode(1)

\* buffer.toString("utf8"): bytes that are no UTF-8 decode to U+FFFD
utf8Decode(bytes) ==
    LET RECURSIVE decode(_)
        decode(i) ==
            LET has(seq) == /\ i + Len(seq) - 1 <= Len(bytes)
                            /\ SubSeq(bytes, i, i + Len(seq) - 1) = seq
            IN IF i > Len(bytes) THEN <<>>
               ELSE IF has(<<1>>) THEN <<"payload">> \o decode(i + 1)
               ELSE IF has(<<2>>) THEN <<"other">> \o decode(i + 1)
               ELSE IF has(<<3>>) THEN <<"nopass">> \o decode(i + 1)
               ELSE IF has(<<120>>) THEN <<"x">> \o decode(i + 1)
               ELSE IF has(<<195, 169>>) THEN <<"e-acute">> \o decode(i + 2)
               ELSE IF has(<<240, 159, 152, 128>>) THEN <<"hi", "lo">> \o decode(i + 4)
               ELSE IF has(<<239, 191, 189>>) THEN <<"fffd">> \o decode(i + 3)
               ELSE <<"fffd">> \o decode(i + 1)
    IN decode(1)

\* cipher.update/final and decipher.update: the keystream of the nonce,
\* added (direction 1) or taken off (direction 255)
Keystream(iv, bytes, direction) ==
    [i \in 1..Len(bytes) |-> (bytes[i] + direction * ((iv[1] + 31 * i) % 256)) % 256]

\* cipher.getAuthTag()
AuthTag(iv, ciphertext) ==
    LET RECURSIVE sum(_)
        sum(i) == IF i > Len(ciphertext) THEN 0 ELSE ciphertext[i] + sum(i + 1)
    IN [k \in 1..AUTH_TAG_LENGTH |->
           (iv[IV_LENGTH] + k * (1 + sum(1)) + Len(ciphertext)) % 256]

\* randomBytes(IV_LENGTH)
RandomIvs == {[i \in 1..IV_LENGTH |-> b + i] : b \in {0, 200}}

\* encryptTokenPayload(plaintext), with the nonce randomBytes gave
encryptTokenPayload(plaintext, iv) ==
    LET ciphertext == Keystream(iv, utf8Encode(plaintext), 1)
    IN iv \o AuthTag(iv, ciphertext) \o ciphertext

\* a decryption that never verifies the tag
decryptTokenPayloadUnverified(payload) ==
    IF Len(payload) < HEADER_LENGTH
      THEN Raise("Error", "Encrypted token payload is invalid.", 0)
      ELSE Returned(utf8Decode(Keystream(SubSeq(payload, 1, IV_LENGTH),
                                         SubSeq(payload, HEADER_LENGTH + 1, Len(payload)),
                                         255)))

\* decryptTokenPayload(payload); decipher.final() throws when the tag does
\* not verify
decryptTokenPayload(payload) ==
    IF Len(payload) < HEADER_LENGTH
      THEN Raise("Error", "Encrypted token payload is invalid.", 0)
      ELSE LET iv == SubSeq(payload, 1, IV_LENGTH)
               authTag == SubSeq(payload, IV_LENGTH + 1, HEADER_LENGTH)
               ciphertext == SubSeq(payload, HEADER_LENGTH + 1, Len(payload))
           IN IF authTag # AuthTag(iv, ciphertext)
                THEN Raise("Error", "Unsupported state or unable to authenticate data", 0)
                ELSE Returned(utf8Decode(Keystream(iv, ciphertext, 255)))

\* parseStoredPayload(raw): JSON.parse and the checks of provider and
\* credentials
parseStoredPayload(raw) ==
    LET email == Str("runner@example.com")
        parsed == IF raw = <<"payload">>
                    THEN Obj([provider |-> Str("garmin-connect"),
                              credentials |-> Obj([email |-> email, password |-> Str("pw")])])
                  ELSE IF raw = <<"other">>
                    THEN Obj([provider |-> Str("fitbit"),
                              credentials |-> Obj([email |-> email, password |-> Str("pw")])])
                  ELSE IF raw = <<"nopass">>
                    THEN Obj([provider |-> Str("garmin-connect"),
                              credentials |-> Obj([email |-> email])])
                  ELSE Raise("SyntaxError", "Unexpected token", 0)
        credentials == Get(parsed, "credentials")
    IN IF parsed.t = "throw" THEN parsed
       ELSE IF ~IsObject(parsed) \/ Get(parsed, "provider") # Str("garmin-connect")
         THEN Raise("Error", "Stored Garmin payload is invalid.", 0)
       ELSE IF ~IsObject(credentials)
         THEN Raise("Error", "Stored Garmin credentials are invalid.", 0)
       ELSE IF Get(credentials, "email").t # "string" \/ Get(credentials, "password").t # "string"
         THEN Raise("Error", "Stored Garmin credentials are malformed.", 0)
       ELSE Returned(parsed)

\* users.garmin_oauth_token: null, or the stored bytes
NoToken == [stored |-> FALSE, bytes |-> <<>>]

Token(bytes) == [stored |-> TRUE, bytes |-> bytes]

\* the token createGarminConnection stores
ValidToken == Token(encryptTokenPayload(<<"payload">>, [i \in 1..IV_LENGTH |-> i]))

\* a stored token cut short of its last byte
CorruptToken == Token(SubSeq(ValidToken.bytes, 1, Len(ValidToken.bytes) - 1))

\* findUnique found no user
NoUser == [missing |-> TRUE]

------------------------------------------------------------------------
(* Adapter resolution: src/server/garmin.ts *)

\* a classification that looks for the rate limit before the authentication
classifyGarminErrorRateLimitFirst(message) ==
    IF Includes(message, "too many") \/ Includes(message, "429")
      THEN [message |-> MsgRateLimit, status |-> 500]
    ELSE IF \/ Includes(message, "invalid")
            \/ Includes(message, "authentication")
            \/ Includes(message, "credential")
            \/ Includes(message, "401")
      THEN [message |-> MsgAuth, status |-> 401]
    ELSE IF Includes(message, "connect") \/ Includes(message, "network")
      THEN [message |-> MsgNetwork, status |-> 500]
    ELSE [message |-> "Garmin connection failed: " \o message, status |-> 500]

\* classifyGarminError: the first matching class wins
classifyGarminError(message) ==
    IF \/ Includes(message, "invalid")
       \/ Includes(message, "authentication")
       \/ Includes(message, "credential")
       \/ Includes(message, "401")
      THEN [message |-> MsgAuth, status |-> 401]
    ELSE IF Includes(message, "too many") \/ Includes(message, "429")
      THEN [message |-> MsgRateLimit, status |-> 500]
    ELSE IF Includes(message, "connect") \/ Includes(message, "network")
      THEN [message |-> MsgNetwork, status |-> 500]
    ELSE [message |-> "Garmin connection failed: " \o message, status |-> 500]

\* Outcomes of createRawGarminClient's construct-and-login loop: "ok", or the
\* last raw error raised by the external client.
LoginOutcomes == {"ok"} \cup RawErrors

\* getGarminClientForUser, given the user row it read and the outcome of the
\* external login it may attempt.  attemptedLogin records whether
\* createRawGarminClient was reached.  (The session user always has a row.)
getGarminClientForUser(user, login) ==
    IF user = NoUser \/ ~user.garminConnected \/ user.garminOauthToken = NoToken
      THEN [success |-> FALSE, message |-> MsgNotConnected, status |-> 400,
            attemptedLogin |-> FALSE]
    ELSE IF LET decrypted == decryptTokenPayload(user.garminOauthToken.bytes)
            IN decrypted.t = "throw" \/ parseStoredPayload(decrypted.value).t = "throw"
      THEN [success |-> FALSE, message |-> MsgInvalidSession, status |-> 400,
            attemptedLogin |-> FALSE]
    ELSE IF login # "ok"
      THEN [success |-> FALSE, message |-> classifyGarminError(login).message,
            status |-> classifyGarminError(login).status, attemptedLogin |-> TRUE]
    ELSE [success |-> TRUE, message |-> "", status |-> 200, attemptedLogin |-> TRUE]

------------------------------------------------------------------------
(* Workout decision routes: src/app/api/workout/[id]/{accept,reject}/route.ts *)

NoRow == [userId |-> 0, status |-> "absent", garminWorkoutId |-> NULL]

\* A handler's locals.  seen: the status findFirst returned; upload: the
\* result of uploadWorkoutToGarmin; uploads: uploadWorkout calls it made;
\* wrote: whether it updated the workout row; http: its response status.
IdleReq ==
    [kind |-> "none", userId |-> 0, workoutId |-> 0, pc |-> "idle",
     seen |-> "none", upload |-> "none", http |-> 0,
     uploads |-> 0, wrote |-> FALSE, garminId |-> NULL]

\* a request slot is free when no request is running in it
Free(r) == req[r].pc = "idle"
InFlight == {r \in ReqIds : ~Free(r)}

\* a new request takes the lowest free slot (slots are interchangeable)
NextSlot(r) == Free(r) /\ \A q \in ReqIds : q < r => ~Free(q)

\* session user ids (0: no valid session) and path ids (0: not a positive
\* integer; 2: a positive integer that is no workout's id)
SessionUsers == Users \cup {0}
PathIds == WorkoutIds \cup {0, 2}

\* uploadFailureStatus(message)
uploadFailureStatus(message) ==
    IF \/ Includes(message, "not connected")
       \/ Includes(message, "invalid")
       \/ Includes(message, "reconnect")
      THEN 400
      ELSE 500

\* a lookup by id alone, whoever the owner is
findFirstWorkoutAnyOwner(w, u) ==
    IF w \in WorkoutIds /\ workouts[w].status # "absent"
      THEN workouts[w]
      ELSE NoRow

\* prisma.workout.findFirst({ where: { id, userId } })
findFirstWorkout(w, u) ==
    IF w \in WorkoutIds /\ workouts[w].status # "absent" /\ workouts[w].userId = u
      THEN workouts[w]
      ELSE NoRow

\* return NextResponse.json(..., { status: code }): the handler ends
Finish(r, rec, code) ==
    /\ req' = [req EXCEPT ![r] = IdleReq]
    /\ resp' = [rec EXCEPT !.pc = "done", !.http = code]

\* a rejected await that the handler does not catch: the handler ends
Throw(r, rec) ==
    /\ req' = [req EXCEPT ![r] = IdleReq]
    /\ resp' = [rec EXCEPT !.pc = "thrown", !.http = 500]

\* the handler goes on to its next awaited call
Continue(r, rec) ==
    /\ req' = [req EXCEPT ![r] = rec]
    /\ UNCHANGED resp

\* Outcomes of the adapter's uploadWorkout: a thrown error (its message), or a
\* response whose workoutId is a number ("g1") or missing (NULL).
UploadThrows == RawErrors
UploadReturns == {"g1", NULL}

\* AcceptBegin without the status guard of accept/route.ts:87
AcceptBeginNoStatusGuard(r, u, w, dbOk) ==
    /\ NextSlot(r)
    /\ LET rec == [IdleReq EXCEPT !.kind = "accept", !.userId = u, !.workoutId = w]
           workout == findFirstWorkout(w, u)
       IN IF u = 0 THEN Finish(r, [rec EXCEPT !.workoutId = 0], 401)
          ELSE IF w = 0 THEN Finish(r, rec, 400)
          ELSE IF ~dbOk THEN Throw(r, rec)
          ELSE IF workout.status = "absent"
            THEN Finish(r, rec, 404)
          ELSE Continue(r, [rec EXCEPT !.seen = workout.status, !.pc = "resolve"])
    /\ UNCHANGED <<users, workouts, uploadCalls>>

\* accept POST, up to the awaited prisma.workout.findFirst and the checks on
\* its result
AcceptBegin(r, u, w, dbOk) ==
    /\ NextSlot(r)
    /\ LET rec == [IdleReq EXCEPT !.kind = "accept", !.userId = u, !.workoutId = w]
           workout == findFirstWorkout(w, u)
       IN IF u = 0 THEN Finish(r, [rec EXCEPT !.workoutId = 0], 401)
          ELSE IF w = 0 THEN Finish(r, rec, 400)
          ELSE IF ~dbOk THEN Throw(r, rec)
          ELSE IF workout.status = "absent"
            THEN Finish(r, rec, 404)
          ELSE IF workout.status # "generated"
            THEN Finish(r, [rec EXCEPT !.seen = workout.status], 400)
          ELSE Continue(r, [rec EXCEPT !.seen = workout.status, !.pc = "resolve"])
    /\ UNCHANGED <<users, workouts, uploadCalls>>

\* uploadWorkoutToGarmin: resolveGarminClient (no context is passed)
AcceptResolve(r, dbOk, login) ==
    /\ req[r].kind = "accept" /\ req[r].pc = "resolve"
    /\ LET res == getGarminClientForUser(users[req[r].userId], login)
       IN IF ~dbOk THEN Throw(r, req[r])
          ELSE IF ~res.success
            THEN Finish(r, [req[r] EXCEPT !.upload = "failed"],
                        uploadFailureStatus(res.message))
          ELSE Continue(r, [req[r] EXCEPT !.pc = "upload"])
    /\ UNCHANGED <<users, workouts, uploadCalls>>

\* AcceptUpload without the uploadResult.success check of accept/route.ts:98
AcceptUploadIgnoresFailure(r, outcome) ==
    /\ req[r].kind = "accept" /\ req[r].pc = "upload"
    /\ uploadCalls[req[r].workoutId] < MaxUploadCalls
    /\ uploadCalls' = [uploadCalls EXCEPT ![req[r].workoutId] = @ + 1]
    /\ Continue(r, [req[r] EXCEPT
                      !.uploads = @ + 1,
                      !.upload = IF outcome \in UploadThrows THEN "failed" ELSE "ok",
                      !.garminId = IF outcome \in UploadThrows THEN NULL ELSE outcome,
                      !.pc = "update"])
    /\ UNCHANGED <<users, workouts>>

\* uploadWorkoutToGarmin: client.uploadWorkout and the route's check of the result
AcceptUpload(r, outcome) ==
    /\ req[r].kind = "accept" /\ req[r].pc = "upload"
    /\ uploadCalls[req[r].workoutId] < MaxUploadCalls
    /\ uploadCalls' = [uploadCalls EXCEPT ![req[r].workoutId] = @ + 1]
    /\ LET rec == [req[r] EXCEPT !.uploads = @ + 1]
       IN IF outcome \in UploadThrows
            THEN Finish(r, [rec EXCEPT !.upload = "failed"],
                        uploadFailureStatus(outcome))
            ELSE Continue(r, [rec EXCEPT !.upload = "ok", !.garminId = outcome,
                                         !.pc = "update"])
    /\ UNCHANGED <<users, workouts>>

\* prisma.workout.update({ where: { id }, data: { status: "uploaded", ... } })
AcceptUpdate(r, dbOk) ==
    /\ req[r].kind = "accept" /\ req[r].pc = "update"
    /\ IF ~dbOk
         THEN Throw(r, req[r]) /\ UNCHANGED workouts
         ELSE /\ workouts' = [workouts EXCEPT ![req[r].workoutId] =
                                 [@ EXCEPT !.status = "uploaded",
                                           !.garminWorkoutId = req[r].garminId]]
              /\ Finish(r, [req[r] EXCEPT !.wrote = TRUE], 200)
    /\ UNCHANGED <<users, uploadCalls>>

\* reject POST, up to the awaited prisma.workout.findFirst (which selects the
\* id only)
RejectBegin(r, u, w, dbOk) ==
    /\ NextSlot(r)
    /\ LET rec == [IdleReq EXCEPT !.kind = "reject", !.userId = u, !.workoutId = w]
           workout == findFirstWorkout(w, u)
       IN IF u = 0 THEN Finish(r, [rec EXCEPT !.workoutId = 0], 401)
          ELSE IF w = 0 THEN Finish(r, rec, 400)
          ELSE IF ~dbOk THEN Throw(r, rec)
          ELSE IF workout.status = "absent"
            THEN Finish(r, rec, 404)
          ELSE Continue(r, [rec EXCEPT !.pc = "update"])
    /\ UNCHANGED <<users, workouts, uploadCalls>>

\* prisma.workout.update({ where: { id }, data: { status: "rejected" } })
RejectUpdate(r, dbOk) ==
    /\ req[r].kind = "reject" /\ req[r].pc = "update"
    /\ IF ~dbOk
         THEN Throw(r, req[r]) /\ UNCHANGED workouts
         ELSE /\ workouts' = [workouts EXCEPT ![req[r].workoutId].status = "rejected"]
              /\ Finish(r, [req[r] EXCEPT !.wrote = TRUE], 200)
    /\ UNCHANGED <<users, uploadCalls>>

\* Rows as the generate route creates them (status "generated", no Garmin id);
\* the workout belongs to user 1, so user 2 is a foreign user.
InitWorkouts ==
    [w \in WorkoutIds |-> [userId |-> 1, status |-> "generated", garminWorkoutId |-> NULL]]

UserRows ==
    [garminConnected : BOOLEAN, garminOauthToken : {NoToken, ValidToken, CorruptToken}]

\* connect sets the flag and the token together, disconnect clears both; a
\* stored token may be unreadable (CorruptToken)
ReachableUserRows == {row \in UserRows : row.garminConnected <=> row.garminOauthToken # NoToken}

ConnectedUser == [garminConnected |-> TRUE, garminOauthToken |-> ValidToken]

------------------------------------------------------------------------
(* Dates.  A date string is characterised by the calendar day it parses to
   and by whether it is the canonical YYYY-MM-DD text of that day: V8 parses
   "2026-02-30T00:00:00.000Z" to 2026-03-02, so "2026-02-30" denotes the same
   day as "2026-03-02" without being equal to it.  day 0: the text does not
   parse (Invalid Date). *)

Days == 1..MaxDay

DateStrings ==
    [day : Days, canonical : BOOLEAN] \cup {[day |-> 0, canonical |-> FALSE]}

\* parseDateOnly(date): the day, or 0 when it throws
parseDateOnly(date) == date.day

\* formatDate(date): toISOString().slice(0, 10)
formatDate(day) == [day |-> day, canonical |-> TRUE]

\* addDays(base, offsetDays)
addDays(base, offsetDays) == base + offsetDays

------------------------------------------------------------------------
(* Field mapper: mapDailyHealthReadings (garmin-field-mapper.ts) *)

HealthMetricFields ==
    { "sleepScore", "totalSleepSeconds", "sleepStress", "sleepScoreGarminFeedback",
      "avgOvernightHrv", "hrvStatus", "hrv7dayAvg", "restingHr", "restingHr7dayAvg" }

\* the entries {field, value} a mapper sets when value is defined
Entry(field, opt) == IF opt = <<>> THEN {} ELSE {<<field, opt[1]>>}

SleepScoreOf(dailySleep) ==
    LET fromNew == asInteger(Get(Get(Get(dailySleep, "sleepScores"), "overall"), "value"))
        fromOld == asInteger(Get(Get(dailySleep, "overallSleepScore"), "value"))
    IN IF fromNew # <<>> THEN fromNew ELSE fromOld

\* mapDailyHealthReadings(input), as the set of <<field, value>> it sets
mapDailyHealthReadings(date, sleep, hrv, restingHeartRate) ==
    LET dailySleep == Get(sleep, "dailySleepDTO")
        fromSleepHr == asInteger(Get(sleep, "restingHeartRate"))
        sleepPart ==
            IF ~IsObject(sleep) THEN {}
            ELSE Entry("avgOvernightHrv", asNumber(Get(sleep, "avgOvernightHrv")))
                 \cup Entry("hrvStatus", asString(Get(sleep, "hrvStatus")))
                 \cup Entry("restingHr", fromSleepHr)
                 \cup (IF ~IsObject(dailySleep) THEN {}
                       ELSE Entry("sleepScore", SleepScoreOf(dailySleep))
                            \cup Entry("totalSleepSeconds",
                                       asInteger(Get(dailySleep, "sleepTimeSeconds")))
                            \cup Entry("sleepStress",
                                       asInteger(Get(dailySleep, "sleepStress")))
                            \cup Entry("sleepScoreGarminFeedback",
                                       asString(Get(dailySleep, "sleepScoreGarminFeedback"))))
        hrvPart ==
            Entry("hrv7dayAvg", asNumber(Get(Get(hrv, "hrvSummary"), "weeklyAvg")))
        restingPart ==
            IF ~IsObject(restingHeartRate) THEN {}
            ELSE Entry("restingHr7dayAvg",
                       asInteger(Get(restingHeartRate, "lastSevenDaysAvgRestingHeartRate")))
                 \cup (IF IsObject(sleep) /\ fromSleepHr # <<>> THEN {}
                       ELSE Entry("restingHr",
                                  asInteger(Get(restingHeartRate, "restingHeartRate"))))
    IN {<<"readingDate", date>>} \cup sleepPart \cup hrvPart \cup restingPart

\* the check left out: every merged record counts as having metrics
hasMetricsAlways(mapped) == TRUE

\* Object.keys(mapped).some((key) => key !== "readingDate")
hasMetrics(mapped) == \E entry \in mapped : entry[1] # "readingDate"

\* mapped.field ?? null, as <<value>> or <<>> (null)
OrNull(mapped, field) ==
    IF \E entry \in mapped : entry[1] = field
      THEN <<(CHOOSE entry \in mapped : entry[1] = field)[2]>>
      ELSE <<>>

------------------------------------------------------------------------
(* syncDailyHealthData (sync.ts) *)

NoReading == [exists |-> FALSE]

\* the columns the upsert writes, from the mapped record; syncedBy names the
\* syncDailyHealthData call that wrote the row (dataSyncedAt: new Date())
ReadingRow(mapped, call) ==
    [exists |-> TRUE,
     metrics |-> [field \in HealthMetricFields |-> OrNull(mapped, field)],
     syncedBy |-> call]

\* a reading stored by an earlier sync (call 0)
StoredReading == ReadingRow({<<"restingHr", 48>>}, 0)

\* Responses of the adapter's getSleepData / getHrvData / getRestingHeartRate
SleepResponses ==
    { Thrown("network error"),
      JNull,
      Obj([restingHeartRate |-> Num(505)]),
      Obj([dailySleepDTO |-> Obj([overallSleepScore |-> Obj([value |-> Num(700)])])]),
      Obj([dailySleepDTO |-> Obj([sleepScores |-> Obj([overall |-> Obj([value |-> Num(809)])]),
                                  overallSleepScore |-> Obj([value |-> Num(700)]),
                                  sleepTimeSeconds |-> Str("n/a")])]) }

HrvResponses ==
    { Thrown("429 Too Many Requests"),
      Obj([hrvSummary |-> Obj([status |-> Str("BALANCED")])]),
      Obj([hrvSummary |-> Obj([weeklyAvg |-> NumStr(605)])]) }

RestingHrResponses ==
    { Thrown("Request failed with status code 401"),
      Undefined,
      Obj([restingHeartRate |-> Num(520)]) }

IdleHealth ==
    [pc |-> "idle", call |-> 0, userId |-> 0, logins |-> 0,
     startDate |-> formatDate(1), endDate |-> formatDate(1), context |-> FALSE,
     offset |-> 0, synced |-> 0,
     visited |-> <<>>, looked |-> <<>>, fetched |-> <<>>, written |-> <<>>,
     before |-> <<>>,
     emptyDays |-> {},
     mapped |-> {},
     success |-> FALSE, message |-> ""]

HealthIdle == health = IdleHealth

\* return { success, synced, message }
HealthReturn(h, success, synced, message) ==
    [h EXCEPT !.pc = "done", !.success = success, !.synced = synced, !.message = message]

\* The loop of syncDailyHealthData from the head of iteration `offset` up to
\* its next awaited call: the findUnique of a day that is not the end date,
\* the three fetches of the end date, or the return after the last day.
HealthLoop(h, offset) ==
    LET start == parseDateOnly(h.startDate)
        end == parseDateOnly(h.endDate)
        totalDays == end - start
        current == addDays(start, offset)
        isEndDate == formatDate(current) = h.endDate
        at == [h EXCEPT !.offset = offset, !.visited = Append(@, current)]
    IN IF offset > totalDays
         THEN HealthReturn(h, TRUE, h.synced, "Synced health data")
       ELSE IF ~isEndDate
         THEN [at EXCEPT !.pc = "findUnique"]
       ELSE [at EXCEPT !.pc = "fetch", !.fetched = Append(@, current)]

\* the body of the try block up to the loop
HealthTry(h) ==
    IF parseDateOnly(h.startDate) = 0 \/ parseDateOnly(h.endDate) = 0
      THEN HealthReturn(h, FALSE, 0, "Invalid date value")
    ELSE IF parseDateOnly(h.startDate) > parseDateOnly(h.endDate)
      THEN HealthReturn(h, FALSE, 0, "startDate must be before or equal to endDate.")
    ELSE HealthLoop(h, 0)

\* syncDailyHealthData(userId, startDate, endDate, context?) is called; with a
\* context the client is at hand and the loop starts
HealthCall(u, s, e, ctx) ==
    LET h == [IdleHealth EXCEPT !.call = 1, !.userId = u,
                                !.startDate = s, !.endDate = e, !.context = ctx,
                                !.before = readings]
    IN IF ctx THEN HealthTry(h) ELSE [h EXCEPT !.pc = "resolve"]

HealthStart(u, s, e, ctx) ==
    /\ health.pc = "idle"
    /\ health' = HealthCall(u, s, e, ctx)
    /\ UNCHANGED readings

\* resolveGarminClient without a context: getGarminClientForUser
HealthResolve(dbOk, login) ==
    /\ health.pc = "resolve"
    /\ LET res == getGarminClientForUser(users[health.userId], login)
           h == [health EXCEPT !.logins = IF res.attemptedLogin THEN 1 ELSE 0]
       IN health' = IF ~dbOk THEN [health EXCEPT !.pc = "thrown"]
                    ELSE IF ~res.success
                      THEN HealthReturn(h, FALSE, 0, res.message)
                    ELSE HealthTry(h)
    /\ UNCHANGED readings

\* prisma.dailyHealthReading.findUnique for a day that is not the end date
HealthFindUnique(dbOk) ==
    /\ health.pc = "findUnique"
    /\ LET current == addDays(parseDateOnly(health.startDate), health.offset)
           existing == readings[<<health.userId, current>>]
           answered == [health EXCEPT !.looked = Append(@, current)]
       IN health' = IF ~dbOk
                      THEN HealthReturn(health, FALSE, 0, "persistence error")
                    ELSE IF existing.exists
                      THEN HealthLoop(answered, health.offset + 1)
                    ELSE [answered EXCEPT !.pc = "fetch", !.fetched = Append(@, current)]
    /\ UNCHANGED readings

\* HealthFetch whose catch block reports the days counted so far
HealthFetchKeepsCount(sleep, hrv, rhr) ==
    /\ health.pc = "fetch"
    /\ LET current == addDays(parseDateOnly(health.startDate), health.offset)
           failed == {x \in {sleep, hrv, rhr} : x.t = "throw"}
           mapped == mapDailyHealthReadings(current, sleep, hrv, rhr)
       IN health' =
            IF failed # {}
              THEN HealthReturn(health, FALSE, health.synced,
                                (CHOOSE x \in failed : TRUE).message)
            ELSE IF ~hasMetrics(mapped)
              THEN HealthLoop([health EXCEPT !.emptyDays = @ \cup {current}],
                              health.offset + 1)
            ELSE [health EXCEPT !.pc = "upsert", !.mapped = mapped]
    /\ UNCHANGED readings

\* Promise.all of getSleepData, getHrvData, getRestingHeartRate, then the
\* mapping and the hasMetrics check
HealthFetch(sleep, hrv, rhr) ==
    /\ health.pc = "fetch"
    /\ LET current == addDays(parseDateOnly(health.startDate), health.offset)
           failed == {x \in {sleep, hrv, rhr} : x.t = "throw"}
           mapped == mapDailyHealthReadings(current, sleep, hrv, rhr)
       IN health' =
            IF failed # {}
              THEN HealthReturn(health, FALSE, 0, (CHOOSE x \in failed : TRUE).message)
            ELSE IF ~hasMetrics(mapped)
              THEN HealthLoop([health EXCEPT !.emptyDays = @ \cup {current}],
                              health.offset + 1)
            ELSE [health EXCEPT !.pc = "upsert", !.mapped = mapped]
    /\ UNCHANGED readings

\* prisma.dailyHealthReading.upsert, synced += 1
HealthUpsert(dbOk) ==
    /\ health.pc = "upsert"
    /\ LET current == addDays(parseDateOnly(health.startDate), health.offset)
       IN IF ~dbOk
            THEN /\ health' = HealthReturn(health, FALSE, 0, "persistence error")
                 /\ UNCHANGED readings
            ELSE /\ readings' = [readings EXCEPT ![<<health.userId, current>>] =
                                    ReadingRow(health.mapped, health.call)]
                 /\ health' = HealthLoop([health EXCEPT !.synced = @ + 1,
                                                        !.written = Append(@, current),
                                                        !.mapped = {}],
                                         health.offset + 1)

------------------------------------------------------------------------
(* Field mapper: mapActivity (garmin-field-mapper.ts), and the helpers of
   syncUserActivities.  The modelled columns stand for the mapper's
   conversion classes: garminActivityId (BigInt of the truncated number),
   activityName (text), durationSeconds (integer), distanceMeters (number),
   activityType, splitSummariesJson. *)

\* typeKey.toLowerCase().includes("running")
RunningTexts == {"running", "trail_running", "Treadmill_Running"}

\* value === null || value === undefined
Nullish(value) == value.t \in {"null", "undefined"}

NonNullish(value, opt) == IF Nullish(value) THEN <<>> ELSE opt

\* the activityType of mapActivity
MappedActivityType(source) ==
    LET activityTypeRaw == Get(source, "activityType")
        typeKey == Get(activityTypeRaw, "typeKey")
    IN IF IsObject(activityTypeRaw) /\ typeKey.t = "string" THEN asString(typeKey)
       ELSE IF asString(activityTypeRaw) # <<>> /\ asString(activityTypeRaw)[1] # ""
         THEN asString(activityTypeRaw)
       ELSE <<>>

\* mapActivity(raw): each field as <<value>>, or <<>> when it is not set
mapActivity(raw) ==
    IF ~IsObject(raw)
      THEN [garminActivityId |-> <<>>, activityName |-> <<>>, activityType |-> <<>>,
            distanceMeters |-> <<>>, durationSeconds |-> <<>>, splitSummariesJson |-> <<>>]
      ELSE [garminActivityId |-> NonNullish(Get(raw, "activityId"),
                                            asInteger(Get(raw, "activityId"))),
            activityName |-> NonNullish(Get(raw, "activityName"),
                                        asString(Get(raw, "activityName"))),
            activityType |-> MappedActivityType(raw),
            distanceMeters |-> NonNullish(Get(raw, "distance"), asNumber(Get(raw, "distance"))),
            durationSeconds |-> NonNullish(Get(raw, "duration"),
                                           asInteger(Get(raw, "duration"))),
            splitSummariesJson |->
                IF Get(raw, "splitSummaries").t = "array"
                  THEN <<Get(raw, "splitSummaries")>> ELSE <<>>]

\* isRunningActivity(raw, mappedType)
isRunningActivity(raw, mappedType) ==
    IF mappedType # <<>> /\ mappedType[1] # "" /\ mappedType[1] \in RunningTexts THEN TRUE
    ELSE IF ~IsObject(raw) THEN FALSE
    ELSE LET activityTypeRaw == Get(raw, "activityType")
             typeKey == Get(activityTypeRaw, "typeKey")
             key == IF IsObject(activityTypeRaw) /\ typeKey.t = "string" THEN asString(typeKey)
                    ELSE asString(activityTypeRaw)
         IN key # <<>> /\ key[1] # "" /\ key[1] \in RunningTexts

\* Math.round(num / den) for num >= 0, den > 0
RoundDiv(num, den) == (2 * num + den) \div (2 * den)

\* calculatePaceSecondsPerKm(activityRaw, mappedDistance, mappedDuration):
\* speeds and distances are fixed point, durations whole seconds
calculatePaceSecondsPerKm(activityRaw, mappedDistance, mappedDuration) ==
    LET speedMps == asNumber(Get(activityRaw, "averageSpeed"))
    IN IF speedMps # <<>> /\ speedMps[1] > 0 THEN <<RoundDiv(10000, speedMps[1])>>
       ELSE IF mappedDistance = <<>> \/ mappedDuration = <<>> THEN <<>>
       ELSE IF mappedDistance[1] <= 0 \/ mappedDuration[1] <= 0 THEN <<>>
       ELSE <<RoundDiv(mappedDuration[1] * 10000, mappedDistance[1])>>

------------------------------------------------------------------------
(* syncUserActivities (sync.ts) *)

\* the id a created row gets from the table's serial
NextActivityId(table) ==
    IF table = {} THEN 1 ELSE 1 + CHOOSE n \in {row.id : row \in table} :
                                      \A row \in table : row.id <= n

\* the columns create and update both write
ActivityData(mapped, pace) ==
    [activityName |-> mapped.activityName,
     activityType |-> mapped.activityType,
     distanceMeters |-> mapped.distanceMeters,
     durationSeconds |-> mapped.durationSeconds,
     averagePaceSecondsPerKm |-> pace]

\* upsert that creates a row whether or not one has the id
upsertActivityInsertOnly(table, userId, mapped, pace) ==
    table \cup {[id |-> NextActivityId(table), userId |-> userId,
                 garminActivityId |-> mapped.garminActivityId,
                 data |-> ActivityData(mapped, pace),
                 splitSummariesJson |-> mapped.splitSummariesJson]}

\* prisma.activity.upsert({ where: { garminActivityId }, create, update })
upsertActivity(table, userId, mapped, pace) ==
    IF \E row \in table : row.garminActivityId = mapped.garminActivityId
      THEN {IF row.garminActivityId = mapped.garminActivityId
              THEN [row EXCEPT !.data = ActivityData(mapped, pace),
                               !.splitSummariesJson =
                                   IF mapped.splitSummariesJson = <<>> THEN @
                                   ELSE mapped.splitSummariesJson]
              ELSE row : row \in table}
      ELSE table \cup {[id |-> NextActivityId(table), userId |-> userId,
                        garminActivityId |-> mapped.garminActivityId,
                        data |-> ActivityData(mapped, pace),
                        splitSummariesJson |-> mapped.splitSummariesJson]}

\* Raw activities the external service may list
RawActivities ==
    { Obj([activityId |-> Num(1010), activityName |-> Str("Morning Run"),
           activityType |-> Obj([typeKey |-> Str("running")]),
           averageSpeed |-> Num(33), distance |-> Num(100005), duration |-> Num(30009)]),
      Obj([activityId |-> Num(1010), activityName |-> Str("Renamed Run"),
           activityType |-> Str("trail_running"),
           distance |-> Num(50000), duration |-> NumStr(15004),
           splitSummaries |-> Arr(<<Obj([distance |-> Num(10000)])>>)]),
      Obj([activityId |-> NumStr(1037), activityType |-> Obj([typeKey |-> Str("Treadmill_Running")]),
           activityName |-> JNull]),
      Obj([activityId |-> Num(1020), activityType |-> Obj([typeKey |-> Str("cycling")])]),
      Obj([activityId |-> Num(5), activityType |-> Str("running")]),
      Obj([activityType |-> Str("running"), activityName |-> Str("No Id")]),
      Str("not an activity") }

ExternalLists ==
    UNION {[1..n -> RawActivities] : n \in 0..MaxActivities}

\* rows an earlier sync may have stored
StoredActivities ==
    { [id |-> 1, userId |-> 1, garminActivityId |-> <<101>>,
       data |-> ActivityData([activityName |-> <<"Old Name">>, activityType |-> <<"running">>,
                              distanceMeters |-> <<>>, durationSeconds |-> <<>>], <<>>),
       splitSummariesJson |-> <<Arr(<<>>)>>],
      [id |-> 2, userId |-> 2, garminActivityId |-> <<103>>,
       data |-> ActivityData([activityName |-> <<>>, activityType |-> <<"running">>,
                              distanceMeters |-> <<>>, durationSeconds |-> <<>>], <<>>),
       splitSummariesJson |-> <<>>] }

IdleAct ==
    [pc |-> "idle", run |-> 0, userId |-> 0, context |-> FALSE, logins |-> 0,
     index |-> 0, synced |-> 0, fetchThrew |-> FALSE, results |-> <<>>]

ActIdle == act = IdleAct

\* return { success, synced, message }: the result and the table it leaves
\* are logged
ActReturn(a, success, synced, table) ==
    [a EXCEPT !.pc = "done", !.synced = synced,
              !.results = Append(@, [success |-> success, synced |-> synced,
                                     table |-> table])]

\* the throw leaves the function
ActThrow(a, table) ==
    [a EXCEPT !.pc = "thrown",
              !.results = Append(@, [success |-> FALSE, synced |-> 0, table |-> table])]

\* does the loop body reach the upsert for this raw activity?
Upserted(rawActivity) ==
    /\ isRunningActivity(rawActivity, mapActivity(rawActivity).activityType)
    /\ mapActivity(rawActivity).garminActivityId # <<>>
    /\ mapActivity(rawActivity).garminActivityId[1] # 0

\* The for loop from element `index` up to its next awaited upsert, or the
\* return after the last element.
ActLoop(a, index, table) ==
    LET rest == {i \in index..Len(external) : Upserted(external[i])}
    IN IF rest = {}
         THEN ActReturn(a, TRUE, a.synced, table)
         ELSE [a EXCEPT !.pc = "upsert",
                        !.index = CHOOSE i \in rest : \A j \in rest : i <= j]

\* syncUserActivities(userId, startDate, endDate, context?) is called
ActCall(u, ctx) ==
    [act EXCEPT !.pc = IF ctx THEN "fetch" ELSE "resolve",
                !.run = @ + 1, !.userId = u, !.context = ctx, !.logins = 0,
                !.index = 0, !.synced = 0, !.fetchThrew = FALSE]

ActStart(u, ctx) ==
    /\ act.pc \in {"idle", "done", "thrown"}
    /\ act.run < MaxActivityRuns
    /\ act' = ActCall(u, ctx)
    /\ UNCHANGED <<activities, external>>

\* resolveGarminClient without a context: getGarminClientForUser
ActResolve(dbOk, login) ==
    /\ act.pc = "resolve"
    /\ LET res == getGarminClientForUser(users[act.userId], login)
           a == [act EXCEPT !.logins = IF res.attemptedLogin THEN 1 ELSE 0]
       IN act' = IF ~dbOk THEN ActThrow(act, activities)
                 ELSE IF ~res.success THEN ActReturn(a, FALSE, 0, activities)
                 ELSE [a EXCEPT !.pc = "fetch"]
    /\ UNCHANGED <<activities, external>>

\* clientResult.client.getActivities(startDate, endDate)
ActFetch(throws) ==
    /\ act.pc = "fetch"
    /\ act' = IF throws THEN ActReturn([act EXCEPT !.fetchThrew = TRUE], FALSE, 0, activities)
              ELSE ActLoop(act, 1, activities)
    /\ UNCHANGED <<activities, external>>

\* prisma.activity.upsert of the element at hand, synced += 1
ActUpsert(dbOk) ==
    /\ act.pc = "upsert"
    /\ LET rawActivity == external[act.index]
           mapped == mapActivity(rawActivity)
           pace == calculatePaceSecondsPerKm(rawActivity, mapped.distanceMeters,
                                             mapped.durationSeconds)
           table == upsertActivity(activities, act.userId, mapped, pace)
       IN IF ~dbOk
            THEN /\ act' = ActReturn(act, FALSE, 0, activities)
                 /\ UNCHANGED activities
            ELSE /\ activities' = table
                 /\ act' = ActLoop([act EXCEPT !.synced = @ + 1], act.index + 1, table)
    /\ UNCHANGED external

------------------------------------------------------------------------
(* Field mapper: mapRacePredictions, mapRunningVolume; vdot.ts *)

\* mapRacePredictions(raw): each field as <<seconds>>, or <<>> when not set
mapRacePredictions(raw) ==
    [predicted5kSeconds |-> asInteger(Get(raw, "time5K")),
     predicted10kSeconds |-> asInteger(Get(raw, "time10K")),
     predictedHalfSeconds |-> asInteger(Get(raw, "timeHalfMarathon")),
     predictedMarathonSeconds |-> asInteger(Get(raw, "timeMarathon"))]

\* the paces with the multipliers of tempo and threshold exchanged
calculateTrainingPacesSwapped(predicted10kSeconds) ==
    IF predicted10kSeconds <= 0
      THEN Thrown("predicted10kSeconds must be a positive number.")
      ELSE [t |-> "paces",
            easyPaceLow |-> (predicted10kSeconds * 124) \div 1000,
            easyPaceHigh |-> (predicted10kSeconds * 136) \div 1000,
            tempoPace |-> (predicted10kSeconds * 103) \div 1000,
            thresholdPace |-> (predicted10kSeconds * 109) \div 1000,
            intervalPace |-> (predicted10kSeconds * 95) \div 1000,
            repetitionPace |-> (predicted10kSeconds * 89) \div 1000]

\* the paces rounded to the nearest second, and zero taken for an input
calculateTrainingPacesRounded(predicted10kSeconds) ==
    IF predicted10kSeconds < 0
      THEN Thrown("predicted10kSeconds must be a positive number.")
      ELSE [t |-> "paces",
            easyPaceLow |-> (predicted10kSeconds * 124 + 500) \div 1000,
            easyPaceHigh |-> (predicted10kSeconds * 136 + 500) \div 1000,
            tempoPace |-> (predicted10kSeconds * 109 + 500) \div 1000,
            thresholdPace |-> (predicted10kSeconds * 103 + 500) \div 1000,
            intervalPace |-> (predicted10kSeconds * 95 + 500) \div 1000,
            repetitionPace |-> (predicted10kSeconds * 89 + 500) \div 1000]

\* calculateTrainingPaces(predicted10kSeconds), for whole seconds:
\* Math.floor(predicted10kSeconds / 10 * 1.24) and so on
calculateTrainingPaces(predicted10kSeconds) ==
    IF predicted10kSeconds <= 0
      THEN Thrown("predicted10kSeconds must be a positive number.")
      ELSE [t |-> "paces",
            easyPaceLow |-> (predicted10kSeconds * 124) \div 1000,
            easyPaceHigh |-> (predicted10kSeconds * 136) \div 1000,
            tempoPace |-> (predicted10kSeconds * 109) \div 1000,
            thresholdPace |-> (predicted10kSeconds * 103) \div 1000,
            intervalPace |-> (predicted10kSeconds * 95) \div 1000,
            repetitionPace |-> (predicted10kSeconds * 89) \div 1000]

\* the typeKey mapRunningVolume reads
VolumeTypeKey(activity) ==
    LET activityTypeRaw == Get(activity, "activityType")
        fromObject == IF IsObject(activityTypeRaw)
                        THEN asString(Get(activityTypeRaw, "typeKey")) ELSE <<>>
    IN IF fromObject # <<>> THEN fromObject ELSE asString(activityTypeRaw)

\* does mapRunningVolume push this element's distance?
CountsForVolume(activity) ==
    /\ IsObject(activity)
    /\ VolumeTypeKey(activity) # <<>>
    /\ VolumeTypeKey(activity)[1] \in RunningTexts
    /\ asNumber(Get(activity, "distance")) # <<>>
    /\ asNumber(Get(activity, "distance"))[1] > 0

RECURSIVE SumDistances(_, _)
SumDistances(rawActivities, indices) ==
    IF indices = {} THEN 0
    ELSE LET i == CHOOSE i \in indices : TRUE
         IN asNumber(Get(rawActivities[i], "distance"))[1]
            + SumDistances(rawActivities, indices \ {i})

\* mapRunningVolume(rawActivities): distances are fixed-point metres, the
\* results hundredths of a kilometre (toFixed(2)); {} is the empty object
mapRunningVolume(rawActivities) ==
    LET counted == {i \in 1..Len(rawActivities) : CountsForVolume(rawActivities[i])}
        sumMeters == SumDistances(rawActivities, counted)
        maxMeters == CHOOSE m \in {asNumber(Get(rawActivities[i], "distance"))[1] : i \in counted} :
                        \A i \in counted : asNumber(Get(rawActivities[i], "distance"))[1] <= m
    IN IF counted = {}
         THEN [weeklyVolumeAvgKm |-> <<>>, longestRunKm |-> <<>>, runningDistanceAvgKm |-> <<>>]
         ELSE [weeklyVolumeAvgKm |-> <<RoundDiv(sumMeters, 400)>>,
               longestRunKm |-> <<RoundDiv(maxMeters, 100)>>,
               runningDistanceAvgKm |-> <<RoundDiv(sumMeters, 100 * Cardinality(counted))>>]

------------------------------------------------------------------------
(* syncUserRunningFitness (sync.ts) *)

NoFitness == [exists |-> FALSE]

NoVolume == [weeklyVolumeAvgKm |-> <<>>, longestRunKm |-> <<>>, runningDistanceAvgKm |-> <<>>]

\* the columns the upsert writes; fresh marks a row written by this call
\* (racePredictionsLastUpdate, lastUpdated)
FitnessRow(mappedPredictions, paces, volumeMetrics, fresh) ==
    [exists |-> TRUE,
     predictions |-> mappedPredictions,
     paces |-> paces,
     volume |-> volumeMetrics,
     dataSource |-> "garmin",
     fresh |-> fresh]

\* a profile stored by an earlier sync
StoredFitness ==
    FitnessRow(mapRacePredictions(Obj([time10K |-> Num(28000)])),
               calculateTrainingPaces(2800),
               [NoVolume EXCEPT !.longestRunKm = <<2110>>], FALSE)

\* Responses of the adapter's getRacePredictions
PredictionResponses ==
    { Thrown("network error"),
      Thrown("Request failed with status code 401"),
      JNull,
      Str("unavailable"),
      Arr(<<>>),
      Arr(<<Obj([time5K |-> Num(12000), time10K |-> Num(25000),
                 timeHalfMarathon |-> Num(55000), timeMarathon |-> Num(115009)])>>),
      Obj([time5K |-> Num(14000), timeHalfMarathon |-> Num(60000)]),
      Obj([time10K |-> Str("fast")]),
      Obj([time10K |-> JNull, time5K |-> Num(14000)]),
      Obj([time10K |-> Num(0)]),
      Obj([time10K |-> Num(5)]),
      Obj([time10K |-> Num(-25000)]),
      Obj([time10K |-> NumStr(30009)]) }

\* Responses of getActivities for the 28 days before today
VolumeResponses ==
    { Thrown("429 Too Many Requests"),
      Arr(<<>>),
      Arr(<<Obj([activityType |-> Str("running"), distance |-> Num(100005)]),
            Obj([activityType |-> Obj([typeKey |-> Str("cycling")]), distance |-> Num(400000)]),
            Obj([activityType |-> Obj([typeKey |-> Str("trail_running")]),
                 distance |-> NumStr(211000)])>>) }

IdleFit ==
    [pc |-> "idle", userId |-> 0, context |-> FALSE, logins |-> 0,
     predictionsRaw |-> Undefined, mappedPredictions |-> mapRacePredictions(Undefined),
     paces |-> Undefined, volumeThrew |-> FALSE, volumeMetrics |-> NoVolume,
     before |-> NoFitness, wrote |-> FALSE,
     success |-> FALSE, synced |-> FALSE, message |-> ""]

FitIdle == fit = IdleFit /\ peer = IdleFit

\* the two calls of syncUserRunningFitness that may be in progress together
FitProcs == {1, 2}

FitProc(p) == IF p = 1 THEN fit ELSE peer

FitSet(p, f) == IF p = 1 THEN fit' = f /\ peer' = peer ELSE peer' = f /\ fit' = fit

\* findUnique({ where: { userId } }) over user_running_fitness
ProfileOf(table, userId) ==
    IF \E r \in table : r.userId = userId
      THEN (CHOOSE r \in table : r.userId = userId).profile
      ELSE NoFitness

\* "id" SERIAL
NextFitnessId(table) ==
    IF table = {} THEN 1
    ELSE (CHOOSE m \in {r.id : r \in table} : \A r \in table : r.id <= m) + 1

\* a write that always takes the create branch, on a table without the
\* unique index on user_id
upsertFitnessInsertOnly(table, userId, profile) ==
    table \cup {[id |-> NextFitnessId(table), userId |-> userId, profile |-> profile]}

\* userRunningFitness.upsert({ where: { userId }, create, update }) under the
\* unique index user_running_fitness_user_id_key: one statement of the
\* database; a create that loses the race for the key fails (dbOk = FALSE
\* at the step) and never leaves a second row
upsertFitness(table, userId, profile) ==
    IF \E r \in table : r.userId = userId
      THEN {IF r.userId = userId THEN [r EXCEPT !.profile = profile] ELSE r : r \in table}
      ELSE table \cup {[id |-> NextFitnessId(table), userId |-> userId, profile |-> profile]}

\* return { success, synced, message }
FitReturn(f, success, message) ==
    [f EXCEPT !.pc = "done", !.success = success, !.synced = success, !.message = message]

\* predictionsRaw as the object the code goes on with, or null
PredictionsObject(predictionsRaw) ==
    IF predictionsRaw.t = "array"
      THEN IF Len(predictionsRaw.items) > 0 /\ IsObject(predictionsRaw.items[1])
             THEN predictionsRaw.items[1] ELSE JNull
    ELSE IF IsObject(predictionsRaw) THEN predictionsRaw
    ELSE JNull

\* syncUserRunningFitness(userId, context?) is called
FitCall(u, ctx) ==
    [IdleFit EXCEPT !.pc = IF ctx THEN "predictions" ELSE "resolve",
                    !.userId = u, !.context = ctx, !.before = ProfileOf(fitness, u)]

FitStart(p, u, ctx) ==
    /\ FitProc(p).pc = "idle"
    /\ FitSet(p, FitCall(u, ctx))
    /\ UNCHANGED fitness

\* resolveGarminClient without a context: getGarminClientForUser
FitResolve(p, dbOk, login) ==
    /\ FitProc(p).pc = "resolve"
    /\ LET res == getGarminClientForUser(users[FitProc(p).userId], login)
           f == [FitProc(p) EXCEPT !.logins = IF res.attemptedLogin THEN 1 ELSE 0]
       IN FitSet(p, IF ~dbOk THEN [FitProc(p) EXCEPT !.pc = "thrown"]
                 ELSE IF ~res.success THEN FitReturn(f, FALSE, res.message)
                 ELSE [f EXCEPT !.pc = "predictions"])
    /\ UNCHANGED fitness

\* the step that stores whatever the predictions hold and goes on
FitPredictionsPartialSuccess(p, predictionsRaw) ==
    /\ FitProc(p).pc = "predictions"
    /\ LET predictions == PredictionsObject(predictionsRaw)
           mappedPredictions == mapRacePredictions(predictions)
           seen == [FitProc(p) EXCEPT !.predictionsRaw = predictionsRaw,
                               !.mappedPredictions = mappedPredictions]
       IN FitSet(p, IF predictionsRaw.t = "throw"
                   THEN FitReturn(seen, FALSE, predictionsRaw.message)
                 ELSE [seen EXCEPT !.pc = "volume"])
    /\ UNCHANGED fitness

\* getRacePredictions, the two checks and calculateTrainingPaces
FitPredictions(p, predictionsRaw) ==
    /\ FitProc(p).pc = "predictions"
    /\ LET predictions == PredictionsObject(predictionsRaw)
           mappedPredictions == mapRacePredictions(predictions)
           predicted10kSeconds == mappedPredictions.predicted10kSeconds
           paces == calculateTrainingPaces(predicted10kSeconds[1])
           seen == [FitProc(p) EXCEPT !.predictionsRaw = predictionsRaw,
                               !.mappedPredictions = mappedPredictions]
       IN FitSet(p, IF predictionsRaw.t = "throw"
                   THEN FitReturn(seen, FALSE, predictionsRaw.message)
                 ELSE IF predictions = JNull
                   THEN FitReturn(seen, FALSE, "No race prediction data returned by Garmin.")
                 ELSE IF predicted10kSeconds = <<>> \/ predicted10kSeconds[1] = 0
                   THEN FitReturn(seen, FALSE, "Race predictions are missing 10K time.")
                 ELSE IF paces.t = "throw"
                   THEN FitReturn(seen, FALSE, paces.message)
                 ELSE [seen EXCEPT !.pc = "volume", !.paces = paces])
    /\ UNCHANGED fitness

\* the sub-fetch whose throw ends the sync
FitVolumeThrowAborts(p, activities28) ==
    /\ FitProc(p).pc = "volume"
    /\ FitSet(p, IF activities28.t = "throw"
                THEN FitReturn([FitProc(p) EXCEPT !.volumeThrew = TRUE], FALSE, activities28.message)
                ELSE [FitProc(p) EXCEPT !.pc = "upsert",
                                 !.volumeMetrics = mapRunningVolume(activities28.items)])
    /\ UNCHANGED fitness

\* the inner try: getActivities over the last 28 days and mapRunningVolume
FitVolume(p, activities28) ==
    /\ FitProc(p).pc = "volume"
    /\ FitSet(p, IF activities28.t = "throw"
                THEN [FitProc(p) EXCEPT !.pc = "upsert", !.volumeThrew = TRUE,
                                 !.volumeMetrics = NoVolume]
                ELSE [FitProc(p) EXCEPT !.pc = "upsert",
                                 !.volumeMetrics = mapRunningVolume(activities28.items)])
    /\ UNCHANGED fitness

\* prisma.userRunningFitness.upsert({ where: { userId }, create, update })
FitUpsert(p, dbOk) ==
    /\ FitProc(p).pc = "upsert"
    /\ IF ~dbOk
         THEN /\ FitSet(p, FitReturn(FitProc(p), FALSE, "persistence error"))
              /\ UNCHANGED fitness
         ELSE /\ fitness' = upsertFitness(fitness, FitProc(p).userId,
                                FitnessRow(FitProc(p).mappedPredictions, FitProc(p).paces,
                                           FitProc(p).volumeMetrics, TRUE))
              /\ FitSet(p, FitReturn([FitProc(p) EXCEPT !.wrote = TRUE], TRUE,
                                  "Running fitness synced successfully."))

------------------------------------------------------------------------
(* POST /api/garmin/sync.  The repository holds two handlers for the route:
   "context" creates one sync context and hands it to the three operations;
   "perOperation" (src/app/api/garmin/sync/route.ts) looks the user up and
   calls the three operations without a context.  The body gives both dates. *)

SyncHandlers == {"context", "perOperation"}

\* no function is under evaluation
NoCall == [pc |-> "idle"]

IdleSync ==
    [pc |-> "idle", handler |-> "context", userId |-> 0,
     startDate |-> formatDate(1), endDate |-> formatDate(1),
     logins |-> 0, http |-> 0, stamped |-> FALSE, details |-> <<>>]

SyncIdle == sync = IdleSync

\* the route's own parseDateOnly accepts the text
RouteAcceptsDate(handler, date) ==
    /\ parseDateOnly(date) # 0
    /\ handler = "context" => formatDate(parseDateOnly(date)) = date

SyncRespond(rec, code) == [rec EXCEPT !.pc = "done", !.http = code]

\* Promise.all([...]) calls the three operations, each running to its first
\* awaited call
SyncStartOperations(rec, ctx) ==
    /\ sync' = [rec EXCEPT !.pc = "ops"]
    /\ act' = ActCall(rec.userId, ctx)
    /\ health' = HealthCall(rec.userId, rec.startDate, rec.endDate, ctx)
    /\ fit' = FitCall(rec.userId, ctx)
    /\ UNCHANGED <<readings, activities, external, fitness, peer>>

\* session, body and date checks, up to the first awaited database call
SyncBegin(handler, u, bodyOk, s, e) ==
    /\ sync.pc = "idle"
    /\ LET rec == [IdleSync EXCEPT !.handler = handler, !.userId = u,
                                   !.startDate = s, !.endDate = e]
       IN sync' = IF u = 0 THEN SyncRespond(rec, 401)
                  ELSE IF ~bodyOk THEN SyncRespond(rec, 400)
                  ELSE IF ~RouteAcceptsDate(handler, s) \/ ~RouteAcceptsDate(handler, e)
                    THEN SyncRespond(rec, 400)
                  ELSE IF parseDateOnly(s) > parseDateOnly(e) THEN SyncRespond(rec, 400)
                  ELSE [rec EXCEPT !.pc = IF handler = "context" THEN "createContext"
                                          ELSE "lookup"]
    /\ UNCHANGED <<healthVars, activityVars, fitnessVars>>

\* "perOperation": prisma.user.findUnique and the connected check, then the
\* three operations without a context
SyncLookup(dbOk) ==
    /\ sync.pc = "lookup"
    /\ IF ~dbOk
         THEN /\ sync' = [sync EXCEPT !.pc = "thrown", !.http = 500]
              /\ UNCHANGED <<healthVars, activityVars, fitnessVars>>
       ELSE IF ~users[sync.userId].garminConnected \/ users[sync.userId].garminOauthToken = NoToken
         THEN /\ sync' = SyncRespond(sync, 400)
              /\ UNCHANGED <<healthVars, activityVars, fitnessVars>>
       ELSE SyncStartOperations(sync, FALSE)

\* "context": createSyncContext(userId), then the three operations with it
SyncCreateContext(dbOk, login) ==
    /\ sync.pc = "createContext"
    /\ LET res == getGarminClientForUser(users[sync.userId], login)
           rec == [sync EXCEPT !.logins = IF res.attemptedLogin THEN 1 ELSE 0]
       IN IF ~dbOk
            THEN /\ sync' = [sync EXCEPT !.pc = "thrown", !.http = 500]
                 /\ UNCHANGED <<healthVars, activityVars, fitnessVars>>
          ELSE IF ~res.success
            THEN /\ sync' = SyncRespond(rec, res.status)
                 /\ UNCHANGED <<healthVars, activityVars, fitnessVars>>
          ELSE SyncStartOperations(rec, TRUE)

\* SyncJoin with a hasFailure that leaves the fitness result out
SyncJoinIgnoresFitnessResult ==
    /\ sync.pc = "ops"
    /\ LET thrown == "thrown" \in {act.pc, health.pc, fit.pc}
           returned == {act.pc, health.pc, fit.pc} = {"done"}
           hasFailure == ~act.results[Len(act.results)].success \/ ~health.success
       IN /\ thrown \/ returned
          /\ sync' = IF thrown THEN [sync EXCEPT !.pc = "thrown", !.http = 500]
                     ELSE IF hasFailure THEN SyncRespond(sync, 500)
                     ELSE [sync EXCEPT !.pc = "update"]
    /\ UNCHANGED <<healthVars, activityVars, fitnessVars>>

\* Promise.all settles: it rejects as soon as one operation throws, and
\* resolves when the three have returned; details: the three results listed
\* in the failure response
SyncJoin ==
    /\ sync.pc = "ops"
    /\ LET thrown == "thrown" \in {act.pc, health.pc, fit.pc}
           returned == {act.pc, health.pc, fit.pc} = {"done"}
           hasFailure == ~act.results[Len(act.results)].success
                         \/ ~health.success \/ ~fit.success
       IN /\ thrown \/ returned
          /\ sync' = IF thrown THEN [sync EXCEPT !.pc = "thrown", !.http = 500]
                     ELSE IF hasFailure
                       THEN SyncRespond(
                              [sync EXCEPT !.details =
                                 << <<act.results[Len(act.results)].success,
                                      health.success, fit.success>> >>], 500)
                     ELSE [sync EXCEPT !.pc = "update"]
    /\ UNCHANGED <<healthVars, activityVars, fitnessVars>>

\* prisma.user.update({ data: { lastSyncAt } }) and the 200 response
SyncUpdate(dbOk) ==
    /\ sync.pc = "update"
    /\ sync' = IF ~dbOk THEN [sync EXCEPT !.pc = "thrown", !.http = 500]
               ELSE SyncRespond([sync EXCEPT !.stamped = TRUE], 200)
    /\ UNCHANGED <<healthVars, activityVars, fitnessVars>>

------------------------------------------------------------------------
(* Specifications *)

FitnessIdle ==
    /\ fitness = {}
    /\ FitIdle

ActivitiesIdle ==
    /\ activities = {}
    /\ external = <<>>
    /\ ActIdle

WorkoutIdle ==
    /\ workouts = InitWorkouts
    /\ req = [r \in ReqIds |-> IdleReq]
    /\ resp = IdleReq
    /\ uploadCalls = [w \in WorkoutIds |-> 0]

InitWorkout ==
    /\ users \in [Users -> ReachableUserRows]
    /\ users[2] = ConnectedUser
    /\ WorkoutIdle
    /\ readings = [k \in Users \X Days |-> NoReading]
    /\ HealthIdle
    /\ ActivitiesIdle
    /\ FitnessIdle
    /\ SyncIdle
    /\ unit = NoCall

NextWorkout ==
    \E r \in ReqIds :
        \/ \E u \in SessionUsers, w \in PathIds, dbOk \in BOOLEAN :
              AcceptBegin(r, u, w, dbOk) /\ UNCHANGED <<healthVars, activityVars, fitnessVars, sync, unit>>
        \/ \E dbOk \in BOOLEAN, login \in LoginOutcomes :
              AcceptResolve(r, dbOk, login) /\ UNCHANGED <<healthVars, activityVars, fitnessVars, sync, unit>>
        \/ \E outcome \in UploadThrows \cup UploadReturns :
              AcceptUpload(r, outcome) /\ UNCHANGED <<healthVars, activityVars, fitnessVars, sync, unit>>
        \/ \E dbOk \in BOOLEAN : AcceptUpdate(r, dbOk) /\ UNCHANGED <<healthVars, activityVars, fitnessVars, sync, unit>>
        \/ \E u \in SessionUsers, w \in PathIds, dbOk \in BOOLEAN :
              RejectBegin(r, u, w, dbOk) /\ UNCHANGED <<healthVars, activityVars, fitnessVars, sync, unit>>
        \/ \E dbOk \in BOOLEAN : RejectUpdate(r, dbOk) /\ UNCHANGED <<healthVars, activityVars, fitnessVars, sync, unit>>

\* requests interleave at their awaited calls
SpecWorkout == InitWorkout /\ [][NextWorkout]_vars

\* requests handled one at a time: a request starts only when none is running
NextWorkoutSerial == NextWorkout /\ Cardinality(InFlight') <= 1

SpecWorkoutSerial == InitWorkout /\ [][NextWorkoutSerial]_vars

\* One syncDailyHealthData call by user 1, on any stored readings.
InitHealth ==
    /\ users \in [Users -> ReachableUserRows]
    /\ users[2] = ConnectedUser
    /\ WorkoutIdle
    /\ readings \in [Users \X Days -> {NoReading, StoredReading}]
    /\ \A d \in Days : readings[<<2, d>>] = NoReading
    /\ HealthIdle
    /\ ActivitiesIdle
    /\ FitnessIdle
    /\ SyncIdle
    /\ unit = NoCall

NextHealth ==
    \/ \E u \in {1}, s \in DateStrings, e \in DateStrings, ctx \in BOOLEAN :
          HealthStart(u, s, e, ctx) /\ UNCHANGED <<users, workoutVars, activityVars, fitnessVars, sync, unit>>
    \/ \E dbOk \in BOOLEAN, login \in LoginOutcomes :
          HealthResolve(dbOk, login) /\ UNCHANGED <<users, workoutVars, activityVars, fitnessVars, sync, unit>>
    \/ \E dbOk \in BOOLEAN : HealthFindUnique(dbOk) /\ UNCHANGED <<users, workoutVars, activityVars, fitnessVars, sync, unit>>
    \/ \E sleep \in SleepResponses, hrv \in HrvResponses, rhr \in RestingHrResponses :
          HealthFetch(sleep, hrv, rhr) /\ UNCHANGED <<users, workoutVars, activityVars, fitnessVars, sync, unit>>
    \/ \E dbOk \in BOOLEAN : HealthUpsert(dbOk) /\ UNCHANGED <<users, workoutVars, activityVars, fitnessVars, sync, unit>>

SpecHealth == InitHealth /\ [][NextHealth]_vars

\* syncUserActivities called by user 1 up to MaxActivityRuns times, one call
\* after the other, while the external service keeps returning the same list.
InitActivities ==
    /\ users \in [Users -> ReachableUserRows]
    /\ users[2] = ConnectedUser
    /\ WorkoutIdle
    /\ readings = [k \in Users \X Days |-> NoReading]
    /\ HealthIdle
    /\ activities \in SUBSET StoredActivities
    /\ external \in ExternalLists
    /\ ActIdle
    /\ FitnessIdle
    /\ SyncIdle
    /\ unit = NoCall

NextActivities ==
    \/ \E ctx \in BOOLEAN :
          ActStart(1, ctx) /\ UNCHANGED <<users, workoutVars, healthVars, fitnessVars, sync, unit>>
    \/ \E dbOk \in BOOLEAN, login \in LoginOutcomes :
          ActResolve(dbOk, login) /\ UNCHANGED <<users, workoutVars, healthVars, fitnessVars, sync, unit>>
    \/ \E throws \in BOOLEAN : ActFetch(throws) /\ UNCHANGED <<users, workoutVars, healthVars, fitnessVars, sync, unit>>
    \/ \E dbOk \in BOOLEAN : ActUpsert(dbOk) /\ UNCHANGED <<users, workoutVars, healthVars, fitnessVars, sync, unit>>

SpecActivities == InitActivities /\ [][NextActivities]_vars

\* One syncUserRunningFitness call by user 1, with or without a stored profile.
InitFitness ==
    /\ users \in [Users -> ReachableUserRows]
    /\ users[2] = ConnectedUser
    /\ WorkoutIdle
    /\ readings = [k \in Users \X Days |-> NoReading]
    /\ HealthIdle
    /\ ActivitiesIdle
    /\ fitness \in SUBSET {[id |-> u, userId |-> u, profile |-> StoredFitness] : u \in Users}
    /\ FitIdle
    /\ SyncIdle
    /\ unit = NoCall

NextFitness ==
    \/ \E ctx \in BOOLEAN :
          FitStart(1, 1, ctx) /\ UNCHANGED <<users, workoutVars, healthVars, activityVars, sync, unit>>
    \/ \E dbOk \in BOOLEAN, login \in LoginOutcomes :
          FitResolve(1, dbOk, login) /\ UNCHANGED <<users, workoutVars, healthVars, activityVars, sync, unit>>
    \/ \E predictionsRaw \in PredictionResponses :
          FitPredictions(1, predictionsRaw)
          /\ UNCHANGED <<users, workoutVars, healthVars, activityVars, sync, unit>>
    \/ \E activities28 \in VolumeResponses :
          FitVolume(1, activities28) /\ UNCHANGED <<users, workoutVars, healthVars, activityVars, sync, unit>>
    \/ \E dbOk \in BOOLEAN :
          FitUpsert(1, dbOk) /\ UNCHANGED <<users, workoutVars, healthVars, activityVars, sync, unit>>

SpecFitness == InitFitness /\ [][NextFitness]_vars

\* Two syncUserRunningFitness calls, by any users, taking their steps in any
\* order; the external service answers with a usable prediction or a failure.
ConcurrentPredictionResponses ==
    { Thrown("network error"),
      Obj([time10K |-> Num(25000)]),
      Obj([time10K |-> NumStr(30009)]) }

ConcurrentVolumeResponses == {Thrown("429 Too Many Requests"), Arr(<<>>)}

NextFitnessConcurrent ==
    \/ \E p \in FitProcs, u \in Users :
          FitStart(p, u, TRUE) /\ UNCHANGED <<users, workoutVars, healthVars, activityVars, sync, unit>>
    \/ \E p \in FitProcs, predictionsRaw \in ConcurrentPredictionResponses :
          FitPredictions(p, predictionsRaw)
          /\ UNCHANGED <<users, workoutVars, healthVars, activityVars, sync, unit>>
    \/ \E p \in FitProcs, activities28 \in ConcurrentVolumeResponses :
          FitVolume(p, activities28)
          /\ UNCHANGED <<users, workoutVars, healthVars, activityVars, sync, unit>>
    \/ \E p \in FitProcs, dbOk \in BOOLEAN :
          FitUpsert(p, dbOk) /\ UNCHANGED <<users, workoutVars, healthVars, activityVars, sync, unit>>

SpecFitnessConcurrent == InitFitness /\ [][NextFitnessConcurrent]_vars

\* One POST /api/garmin/sync by user 1 (or without a session), served by
\* either handler; the three operations interleave at their awaited calls.
\* The external service answers from a few of the responses above.
RouteExternalLists ==
    {list \in ExternalLists :
        Len(list) <= 1 /\ \A i \in 1..Len(list) : Get(list[i], "averageSpeed") # Undefined}

RouteSleepResponses == {sleep \in SleepResponses : Get(sleep, "restingHeartRate") # Undefined}

RouteHrvResponses == {hrv \in HrvResponses : hrv.t = "throw"
                                             \/ Get(Get(hrv, "hrvSummary"), "weeklyAvg") # Undefined}

RouteRestingHrResponses == {rhr \in RestingHrResponses : rhr = Undefined}

RoutePredictionResponses ==
    {raw \in PredictionResponses : raw = JNull \/ Get(raw, "time10K").t = "string"}

RouteVolumeResponses == {raw \in VolumeResponses : raw.t = "throw" \/ raw = Arr(<<>>)}

InitSyncRoute ==
    /\ users \in [Users -> ReachableUserRows]
    /\ users[2] = ConnectedUser
    /\ WorkoutIdle
    /\ readings \in [Users \X Days -> {NoReading, StoredReading}]
    /\ \A k \in Users \X Days : (k[1] = 2 \/ k[2] < MaxDay) => readings[k] = NoReading
    /\ HealthIdle
    /\ activities = {}
    /\ external \in RouteExternalLists
    /\ ActIdle
    /\ FitnessIdle
    /\ SyncIdle
    /\ unit = NoCall

NextSyncRoute ==
    \/ \E handler \in SyncHandlers, u \in {0, 1}, bodyOk \in BOOLEAN,
          s \in DateStrings, e \in DateStrings :
          SyncBegin(handler, u, bodyOk, s, e) /\ UNCHANGED <<users, workoutVars, unit>>
    \/ \E dbOk \in BOOLEAN : SyncLookup(dbOk) /\ UNCHANGED <<users, workoutVars, unit>>
    \/ \E dbOk \in BOOLEAN, login \in LoginOutcomes :
          SyncCreateContext(dbOk, login) /\ UNCHANGED <<users, workoutVars, unit>>
    \/ \E dbOk \in BOOLEAN, login \in LoginOutcomes :
          ActResolve(dbOk, login) /\ UNCHANGED <<users, workoutVars, healthVars, fitnessVars, sync, unit>>
    \/ \E throws \in BOOLEAN :
          ActFetch(throws) /\ UNCHANGED <<users, workoutVars, healthVars, fitnessVars, sync, unit>>
    \/ \E dbOk \in BOOLEAN :
          ActUpsert(dbOk) /\ UNCHANGED <<users, workoutVars, healthVars, fitnessVars, sync, unit>>
    \/ \E dbOk \in BOOLEAN, login \in LoginOutcomes :
          HealthResolve(dbOk, login)
          /\ UNCHANGED <<users, workoutVars, activityVars, fitnessVars, sync, unit>>
    \/ \E dbOk \in BOOLEAN :
          HealthFindUnique(dbOk) /\ UNCHANGED <<users, workoutVars, activityVars, fitnessVars, sync, unit>>
    \/ \E sleep \in RouteSleepResponses, hrv \in RouteHrvResponses,
          rhr \in RouteRestingHrResponses :
          HealthFetch(sleep, hrv, rhr)
          /\ UNCHANGED <<users, workoutVars, activityVars, fitnessVars, sync, unit>>
    \/ \E dbOk \in BOOLEAN :
          HealthUpsert(dbOk) /\ UNCHANGED <<users, workoutVars, activityVars, fitnessVars, sync, unit>>
    \/ \E dbOk \in BOOLEAN, login \in LoginOutcomes :
          FitResolve(1, dbOk, login) /\ UNCHANGED <<users, workoutVars, healthVars, activityVars, sync, unit>>
    \/ \E predictionsRaw \in RoutePredictionResponses :
          FitPredictions(1, predictionsRaw)
          /\ UNCHANGED <<users, workoutVars, healthVars, activityVars, sync, unit>>
    \/ \E activities28 \in RouteVolumeResponses :
          FitVolume(1, activities28) /\ UNCHANGED <<users, workoutVars, healthVars, activityVars, sync, unit>>
    \/ \E dbOk \in BOOLEAN :
          FitUpsert(1, dbOk) /\ UNCHANGED <<users, workoutVars, healthVars, activityVars, sync, unit>>
    \/ SyncJoin /\ UNCHANGED <<users, workoutVars, unit>>
    \/ \E dbOk \in BOOLEAN : SyncUpdate(dbOk) /\ UNCHANGED <<users, workoutVars, unit>>

SpecSyncRoute == InitSyncRoute /\ [][NextSyncRoute]_vars

------------------------------------------------------------------------
(* The adapter over the external client: src/server/garmin.ts.  A client is
   a function from the names of its methods to what each does; a method
   answers each argument shape it is called with by returning a value or
   by throwing. *)

\* everything but the function under evaluation
others == <<users, workoutVars, healthVars, activityVars, fitnessVars, sync>>

OthersIdle ==
    /\ users = [u \in Users |-> ConnectedUser]
    /\ WorkoutIdle
    /\ readings = [k \in Users \X Days |-> NoReading]
    /\ HealthIdle
    /\ ActivitiesIdle
    /\ FitnessIdle
    /\ SyncIdle

\* typeof client[methodName] !== "function"
Absent == [callable |-> FALSE, outcomes |-> <<>>]

\* a method, with its answer to each argument shape
Callable(outcomes) == [callable |-> TRUE, outcomes |-> outcomes]

\* client[methodName]
Method(client, methodName) ==
    IF methodName \in DOMAIN client THEN client[methodName] ELSE Absent

\* methodNames.join("/") behind "Missing Garmin capability: "
MissingCapabilityMessage(methodNames) ==
    LET RECURSIVE join(_)
        join(i) == IF i > Len(methodNames) THEN ""
                   ELSE IF i = 1 THEN methodNames[1] \o join(2)
                   ELSE "/" \o methodNames[i] \o join(i + 1)
    IN "Missing Garmin capability: " \o join(1)

\* the canonical operations of the adapter (getActivities aside), named as
\* fallbackHttpRequest names them
Operations == {"sleep", "hrv", "resting-heart-rate", "race-predictions", "upload-workout"}

\* the aliases each operation passes to invokeMethod
OperationAliases(operation) ==
    CASE operation = "sleep" -> <<"getSleepData", "get_sleep_data">>
      [] operation = "hrv" -> <<"getHrvData", "getHRVData", "get_hrv_data">>
      [] operation = "resting-heart-rate" ->
            <<"getHeartRate", "getHeartRates", "get_heart_rates", "getRestingHeartRate">>
      [] operation = "race-predictions" -> <<"getRacePredictions", "get_race_predictions">>
      [] operation = "upload-workout" -> <<"uploadWorkout", "upload_workout", "addWorkout">>
      [] operation = "profile" -> <<"getUserProfile", "get_user_profile">>

\* the number of argument shapes each operation passes to invokeMethod
OperationShapes(operation) == IF operation \in {"upload-workout", "profile"} THEN 1 ELSE 2

\* invokeMethod(client, methodNames, argsVariants), with the calls it made
invokeMethod(client, methodNames, argsVariants) ==
    LET RECURSIVE loop(_, _, _, _)
        loop(i, j, lastError, calls) ==
            IF i > Len(methodNames)
              THEN [outcome |-> IF lastError.t = "throw" /\ lastError.name # "value"
                                  THEN lastError
                                  ELSE Raise("Error", MissingCapabilityMessage(methodNames), 0),
                    calls |-> calls]
            ELSE IF ~Method(client, methodNames[i]).callable \/ j > argsVariants
              THEN loop(i + 1, 1, lastError, calls)
            ELSE LET outcome == Method(client, methodNames[i]).outcomes[j]
                     called == Append(calls, <<methodNames[i], j>>)
                 IN IF outcome.t = "return"
                      THEN [outcome |-> outcome, calls |-> called]
                      ELSE loop(i, j + 1, outcome, called)
    IN loop(1, 1, [t |-> "null"], <<>>)

\* error instanceof Error && error.message.startsWith("Missing Garmin capability:")
isMissingCapabilityError(error) ==
    /\ error.name # "value"
    /\ \E operation \in Operations \cup {"profile"} :
          error.message = MissingCapabilityMessage(OperationAliases(operation))

\* new GarminCapabilityError(operation): the default message and status
GarminCapabilityError(operation) ==
    Raise("GarminCapabilityError",
          "Garmin operation '" \o operation
             \o "' is not supported by the current adapter and HTTP fallback is not configured.",
          501)

\* resolveClientDisplayName(client): <<name>>, or <<>> for null
resolveClientDisplayName(client) ==
    LET profileRaw == invokeMethod(client, OperationAliases("profile"),
                                   OperationShapes("profile")).outcome
        trim(x) == IF x = "  " THEN "" ELSE IF x = " runner " THEN "runner" ELSE x
        usable(key) == /\ profileRaw.t = "return"
                       /\ Get(profileRaw.value, key).t = "string"
                       /\ trim(Get(profileRaw.value, key).v) # ""
    IN IF usable("displayName") THEN <<trim(Get(profileRaw.value, "displayName").v)>>
       ELSE IF usable("username") THEN <<trim(Get(profileRaw.value, "username").v)>>
       ELSE IF usable("userName") THEN <<trim(Get(profileRaw.value, "userName").v)>>
       ELSE <<>>

\* a fallback that asks the client for nothing and throws a plain Error
fallbackHttpRequestNotConfigured(client, operation) ==
    [outcome |-> Raise("Error",
                       "Garmin operation '" \o operation
                          \o "' is not supported by current adapter methods and HTTP fallback is not configured yet.",
                       0),
     gets |-> <<>>]

\* fallbackHttpRequest(client, operation, { date }): its outcome and the
\* paths it asked client.get for
fallbackHttpRequest(client, operation) ==
    LET getMethod == Method(client, "get")
        displayName == resolveClientDisplayName(client)
        get(path) == [outcome |-> getMethod.outcomes[1], gets |-> <<path>>]
        fail(error) == [outcome |-> error, gets |-> <<>>]
    IN IF ~getMethod.callable THEN fail(GarminCapabilityError(operation))
       ELSE IF operation = "race-predictions"
         THEN IF displayName = <<>>
                THEN fail(Raise("GarminCapabilityError",
                       "Garmin race predictions require a profile display name, but none was available.",
                       500))
                ELSE get("/metrics-service/metrics/racepredictions/latest/" \o displayName[1])
       ELSE IF operation = "hrv" THEN get("/hrv-service/hrv/date")
       ELSE IF operation = "resting-heart-rate"
         THEN IF displayName = <<>>
                THEN fail(Raise("GarminCapabilityError",
                       "Garmin resting heart rate fallback requires a profile display name, but none was available.",
                       500))
                ELSE get("/userstats-service/wellness/daily/" \o displayName[1])
       ELSE fail(GarminCapabilityError(operation))

\* the adapter's method for the operation: invokeMethod over the aliases,
\* and fallbackHttpRequest when the error is the missing-capability one
\* (getHrvData asks for the fallback at once when no alias is callable)
AdapterOperation(client, operation) ==
    LET methodNames == OperationAliases(operation)
        invoked == invokeMethod(client, methodNames, OperationShapes(operation))
        fallback == fallbackHttpRequest(client, operation)
        hasMethod == \E i \in 1..Len(methodNames) : Method(client, methodNames[i]).callable
    IN IF operation = "hrv" /\ ~hasMethod
         THEN [outcome |-> fallback.outcome, calls |-> <<>>, gets |-> fallback.gets,
               fellBack |-> TRUE]
       ELSE IF invoked.outcome.t = "throw" /\ isMissingCapabilityError(invoked.outcome)
         THEN [outcome |-> fallback.outcome, calls |-> invoked.calls, gets |-> fallback.gets,
               fellBack |-> TRUE]
       ELSE [outcome |-> invoked.outcome, calls |-> invoked.calls, gets |-> <<>>,
             fellBack |-> FALSE]

\* what a method of the external client may do with one argument shape
MethodOutcomes ==
    { Returned(Obj([ok |-> Str("first")])),
      Raise("Error", "network error", 0),
      Raise("value", "", 0) }

MethodBehaviours(argsVariants) ==
    {Absent} \cup {Callable(outcomes) : outcomes \in [1..argsVariants -> MethodOutcomes]}

GetBehaviours ==
    { Absent,
      Callable(<<Returned(Obj([ok |-> Str("http")]))>>),
      Callable(<<Raise("Error", "Request failed with status code 401", 0)>>) }

ProfileBehaviours ==
    { Absent,
      Callable(<<Returned(Obj([displayName |-> Str(" runner ")]))>>),
      Callable(<<Returned(Obj([displayName |-> Str("  "), userName |-> Str("rc")]))>>),
      Callable(<<Returned(JNull)>>),
      Callable(<<Raise("Error", "network error", 0)>>) }

\* One call of one adapter operation on one external client.
InitAdapter ==
    /\ OthersIdle
    /\ \E operation \in Operations :
       \E methods \in [{OperationAliases(operation)[i] :
                           i \in 1..Len(OperationAliases(operation))}
                         -> MethodBehaviours(OperationShapes(operation))],
          getMethod \in GetBehaviours, getUserProfile \in ProfileBehaviours :
          unit = [pc |-> "idle", operation |-> operation,
                  client |-> [n \in DOMAIN methods \cup {"get", "getUserProfile"} |->
                                 IF n = "get" THEN getMethod
                                 ELSE IF n = "getUserProfile" THEN getUserProfile
                                 ELSE methods[n]]]

AdapterCall ==
    /\ unit.pc = "idle"
    /\ unit' = [pc |-> "done", operation |-> unit.operation, client |-> unit.client,
                invoked |-> invokeMethod(unit.client, OperationAliases(unit.operation),
                                         OperationShapes(unit.operation)),
                result |-> AdapterOperation(unit.client, unit.operation)]
    /\ UNCHANGED others

NextAdapter == AdapterCall

SpecAdapter == InitAdapter /\ [][NextAdapter]_vars

------------------------------------------------------------------------
(* The AI response: src/server/ai.ts.  A response text is a sequence of
   units: the fence of three backquotes, the language tag json, a newline, a
   blank (both white space), a text
   that is no JSON ("x"), and JSON texts taken as one unit each. *)

\* the JSON texts and the values JSON.parse gives for them
JsonTexts ==
    LET steps == Arr(<<Obj([stepOrder |-> Num(10)])>>)
        workout == Obj([workoutName |-> Str("Tempo run"), sportType |-> Obj([sportTypeId |-> Num(10)]),
                        workoutSegments |-> Arr(<<Obj([workoutSteps |-> steps])>>)])
    IN [W |-> workout,
        E |-> Obj([workout |-> workout, explanation |-> Str(" Easy day ")]),
        E0 |-> Obj([workout |-> workout, explanation |-> Str("  ")]),
        B |-> Obj([workoutName |-> Str("  "), sportType |-> Obj([sportTypeId |-> Num(10)]),
                   workoutSegments |-> Arr(<<Obj([workoutSteps |-> steps])>>)]),
        B0 |-> Obj([workout |-> Obj([workoutName |-> Str("Tempo run"),
                                     sportType |-> Obj([sportTypeId |-> Num(10)]),
                                     workoutSegments |-> Arr(<<Obj([workoutSteps |-> Arr(<<>>)])>>)])]),
        N |-> JNull]

TextUnits == {"fence", "json", "newline", "blank", "x"} \cup DOMAIN JsonTexts

\* String.prototype.trim
TrimText(text) ==
    LET solid == {i \in 1..Len(text) : text[i] \notin {"blank", "newline"}}
    IN IF solid = {} THEN <<>>
       ELSE SubSeq(text, CHOOSE i \in solid : \A j \in solid : i <= j,
                         CHOOSE i \in solid : \A j \in solid : j <= i)

\* a strip that looks for no closing fence
stripOpeningFenceOnly(raw) ==
    LET trimmed == TrimText(raw)
        newlines == {i \in 1..Len(trimmed) : trimmed[i] = "newline"}
    IN IF trimmed = <<>> \/ trimmed[1] # "fence" \/ newlines = {} THEN trimmed
       ELSE TrimText(SubSeq(trimmed, (CHOOSE i \in newlines : \A j \in newlines : i <= j) + 1,
                            Len(trimmed)))

\* stripMarkdownCodeBlock(raw)
stripMarkdownCodeBlock(raw) ==
    LET trimmed == TrimText(raw)
        newlines == {i \in 1..Len(trimmed) : trimmed[i] = "newline"}
        firstNewline == CHOOSE i \in newlines : \A j \in newlines : i <= j
        withoutOpeningFence == SubSeq(trimmed, firstNewline + 1, Len(trimmed))
    IN IF trimmed = <<>> \/ trimmed[1] # "fence" THEN trimmed
       ELSE IF newlines = {} THEN trimmed
       ELSE IF withoutOpeningFence # <<>> /\ withoutOpeningFence[Len(withoutOpeningFence)] = "fence"
         THEN TrimText(SubSeq(withoutOpeningFence, 1, Len(withoutOpeningFence) - 1))
       ELSE TrimText(withoutOpeningFence)

\* validateWorkoutStructure(value)
validateWorkoutStructure(value) ==
    /\ IsObject(value)
    /\ Get(value, "workoutName").t = "string"
    /\ Get(value, "workoutName").v # "  "
    /\ IsObject(Get(value, "sportType"))
    /\ Get(value, "workoutSegments").t = "array"
    /\ Get(value, "workoutSegments").items # <<>>
    /\ IsObject(Get(value, "workoutSegments").items[1])
    /\ Get(Get(value, "workoutSegments").items[1], "workoutSteps").t = "array"
    /\ Get(Get(value, "workoutSegments").items[1], "workoutSteps").items # <<>>

\* parseWorkoutResponse(raw): { workout, explanation }, or the Error thrown
parseWorkoutResponse(raw) ==
    LET normalized == TrimText(stripMarkdownCodeBlock(raw))
        parsed == JsonTexts[normalized[1]]
        wrapped == IsObject(parsed) /\ "workout" \in DOMAIN parsed.f
        workoutCandidate == IF wrapped THEN Get(parsed, "workout") ELSE parsed
        explanation == IF wrapped /\ Get(parsed, "explanation").t = "string"
                            /\ Get(parsed, "explanation").v # "  "
                         THEN Str("Easy day") ELSE JNull
    IN IF Len(normalized) # 1 \/ normalized[1] \notin DOMAIN JsonTexts
         THEN Raise("Error", "Failed to parse workout JSON from AI response.", 0)
       ELSE IF ~validateWorkoutStructure(workoutCandidate)
         THEN Raise("Error", "Workout is missing required Garmin fields.", 0)
       ELSE Returned([workout |-> workoutCandidate, explanation |-> explanation])

------------------------------------------------------------------------
(* Specifications of the token functions *)

MaxTextLen == 2

Plaintexts == UNION {[1..n -> CodeUnits] : n \in 0..MaxTextLen}

\* encryptTokenPayload of one plaintext; the blob may be changed or cut
\* where it is stored; decryptTokenPayload of what is stored.
InitEncryption ==
    /\ OthersIdle
    /\ \E plaintext \in Plaintexts, iv \in RandomIvs :
          unit = [pc |-> "idle", plaintext |-> plaintext, iv |-> iv, blob |-> <<>>,
                  region |-> "none", result |-> Undefined]

Encrypt ==
    /\ unit.pc = "idle"
    /\ unit' = [unit EXCEPT !.pc = "encrypted",
                            !.blob = encryptTokenPayload(unit.plaintext, unit.iv)]
    /\ UNCHANGED others

\* one byte of the stored blob is changed
Tamper(i, delta) ==
    /\ unit.pc = "encrypted"
    /\ i <= Len(unit.blob)
    /\ unit' = [unit EXCEPT !.pc = "stored",
                            !.blob = [unit.blob EXCEPT ![i] = (@ + delta) % 256],
                            !.region = IF i <= IV_LENGTH THEN "iv"
                                       ELSE IF i <= HEADER_LENGTH THEN "tag"
                                       ELSE "ciphertext"]
    /\ UNCHANGED others

\* the stored blob is cut to its first n bytes
Truncate(n) ==
    /\ unit.pc = "encrypted"
    /\ n < Len(unit.blob)
    /\ unit' = [unit EXCEPT !.pc = "stored", !.blob = SubSeq(unit.blob, 1, n),
                            !.region = "length"]
    /\ UNCHANGED others

Decrypt ==
    /\ unit.pc \in {"encrypted", "stored"}
    /\ unit' = [unit EXCEPT !.pc = "done", !.result = decryptTokenPayload(unit.blob)]
    /\ UNCHANGED others

NextEncryption ==
    \/ Encrypt
    \/ \E i \in 1..(HEADER_LENGTH + 4 * MaxTextLen), delta \in {1, 128} : Tamper(i, delta)
    \/ \E n \in 0..(HEADER_LENGTH + 4 * MaxTextLen) : Truncate(n)
    \/ Decrypt

SpecEncryption == InitEncryption /\ [][NextEncryption]_vars

\* the tokens a user row may hold: what encryptTokenPayload gave for a text,
\* whole, cut, or with a byte of its tag or of its ciphertext changed
ClientTokens ==
    {NoToken} \cup
    UNION {LET blob == encryptTokenPayload(text, iv)
           IN {Token(blob), Token(<<>>), Token(SubSeq(blob, 1, HEADER_LENGTH - 1)),
               Token(SubSeq(blob, 1, HEADER_LENGTH)),
               Token([blob EXCEPT ![IV_LENGTH + 1] = (@ + 1) % 256]),
               Token([blob EXCEPT ![Len(blob)] = (@ + 128) % 256])}
           : text \in {<<"payload">>, <<"other">>, <<"nopass">>, <<"x">>, <<"payload", "x">>},
             iv \in RandomIvs}

\* One getGarminClientForUser call for a user id.
InitClient ==
    /\ OthersIdle
    /\ \E user \in {NoUser} \cup [garminConnected : BOOLEAN, garminOauthToken : ClientTokens] :
          unit = [pc |-> "idle", user |-> user]

ClientCall(login) ==
    /\ unit.pc = "idle"
    /\ unit' = [pc |-> "done", user |-> unit.user, login |-> login,
                result |-> getGarminClientForUser(unit.user, login)]
    /\ UNCHANGED others

NextClient == \E login \in LoginOutcomes : ClientCall(login)

SpecClient == InitClient /\ [][NextClient]_vars

------------------------------------------------------------------------
(* Specification of calculateTrainingPaces *)

MaxPaceSeconds == 3000

\* One call of calculateTrainingPaces with a whole number of seconds.
InitPaces ==
    /\ OthersIdle
    /\ \E predicted10kSeconds \in (-3)..MaxPaceSeconds :
          unit = [pc |-> "idle", predicted10kSeconds |-> predicted10kSeconds]

PacesCall ==
    /\ unit.pc = "idle"
    /\ unit' = [pc |-> "done", predicted10kSeconds |-> unit.predicted10kSeconds,
                result |-> calculateTrainingPaces(unit.predicted10kSeconds)]
    /\ UNCHANGED others

NextPaces == PacesCall

SpecPaces == InitPaces /\ [][NextPaces]_vars

------------------------------------------------------------------------
(* POST /api/workout/generate: src/app/api/workout/generate/route.ts and
   generateWorkout of src/server/ai.ts.  unit holds the request; rows are the
   Workout rows it created. *)

AIProviders == {"openrouter", "anthropic"}

MsgNoProfile == "No fitness profile found. Please sync Garmin data first."
MsgConfiguration ==
    "AI provider configuration error: OPENROUTER_API_KEY is required when AI_PROVIDER=openrouter."
MsgEmptyResponse == "AI provider returned an empty response."

\* what the provider's SDK throws: status (0 when it carries none) and message
ProviderErrors ==
    [status : {0, 401, 429, 500},
     message : {"Unauthorized", "Rate limit exceeded", "Request timed out.",
                "Connection timeout", "Internal server error"}]

\* mapProviderError(provider, error): the message of the Error it returns
mapProviderError(provider, error) ==
    IF \/ error.status \in {401, 403}
       \/ \E needle \in {"401", "403", "unauthorized", "forbidden", "auth credentials",
                         "no auth credentials found", "authentication", "invalid api key",
                         "no cookie auth credentials found"} : Includes(error.message, needle)
      THEN "AI provider authentication failed (" \o provider \o "). Update "
              \o (IF provider = "openrouter" THEN "OPENROUTER_API_KEY" ELSE "ANTHROPIC_API_KEY")
              \o " in .env.local."
    ELSE IF error.status = 429 \/ Includes(error.message, "rate limit")
      THEN "AI provider rate limit reached (" \o provider \o "). Please retry soon."
    ELSE IF Includes(error.message, "timeout") \/ Includes(error.message, "timed out")
      THEN "AI provider timed out (" \o provider \o "). Please retry."
    ELSE "AI provider request failed (" \o provider \o ")."

\* a status read off the provider's wording alone, whatever the class
getErrorStatusNoBadRequest(errorMessage) ==
    IF Includes(errorMessage, "rate limit") THEN 503
    ELSE IF Includes(errorMessage, "timed out") \/ Includes(errorMessage, "authentication")
      THEN 504
    ELSE 500

\* getErrorStatus(errorMessage)
getErrorStatus(errorMessage) ==
    IF \/ Includes(errorMessage, "fitness profile")
       \/ Includes(errorMessage, "sync garmin")
       \/ Includes(errorMessage, "invalid request")
       \/ Includes(errorMessage, "invalid payload")
       \/ Includes(errorMessage, "workout prompt")
      THEN 400
    ELSE IF Includes(errorMessage, "rate limit") THEN 503
    ELSE IF Includes(errorMessage, "timed out") THEN 504
    ELSE 500

IdleGenerate ==
    [pc |-> "idle", userId |-> 0, provider |-> "openrouter", cause |-> "none",
     error |-> Undefined, message |-> "", http |-> 0, rows |-> {}]

\* NextResponse.json({ success: false, message }, { status })
GenerateRespond(rec, cause, http, message) ==
    [rec EXCEPT !.pc = "done", !.cause = cause, !.http = http, !.message = message]

\* the catch of POST: the status getErrorStatus reads off the thrown message
GenerateCatch(rec, cause, message) ==
    GenerateRespond(rec, cause, getErrorStatus(message), message)

\* the bodies of the request: workoutType, distanceKm (tenths), userPrompt
GenerateBodies ==
    [workoutType : {Str("tempo"), Str("sprint"), Undefined},
     distanceKm : {Undefined, JNull, Num(80), Num(0), Str("8")},
     userPrompt : {Undefined, Str("hilly"), Num(10)}]

\* session, request.json() and the checks of the body
GenerateBegin(u, provider, jsonOk, body) ==
    /\ unit.pc = "idle"
    /\ LET rec == [unit EXCEPT !.userId = u, !.provider = provider]
       IN unit' =
            IF u = 0 THEN GenerateRespond(rec, "session", 401, "Unauthorized.")
            ELSE IF ~jsonOk THEN GenerateRespond(rec, "input", 400, "Invalid request payload.")
            ELSE IF body.workoutType # Str("tempo")
              THEN GenerateRespond(rec, "input", 400,
                     "Invalid workoutType. Use one of: easy, tempo, interval, long-run, recovery.")
            ELSE IF body.distanceKm \notin {Undefined, JNull}
                    /\ (body.distanceKm.t # "number" \/ body.distanceKm.v <= 0)
              THEN GenerateRespond(rec, "input", 400,
                     "distanceKm must be a positive number when provided.")
            ELSE IF body.userPrompt # Undefined /\ body.userPrompt.t # "string"
              THEN GenerateRespond(rec, "input", 400,
                     "userPrompt must be a string when provided.")
            ELSE [rec EXCEPT !.pc = "context"]
    /\ UNCHANGED others

\* fetchWorkoutGenerationContext and resolveAIProvider
GenerateContext(dbOk, keyOk) ==
    /\ unit.pc = "context"
    /\ unit' = IF ~dbOk THEN GenerateCatch(unit, "persistence", "persistence error")
               ELSE IF ~ProfileOf(fitness, unit.userId).exists
                 THEN GenerateCatch(unit, "profile", MsgNoProfile)
               ELSE IF ~keyOk THEN GenerateCatch(unit, "configuration", MsgConfiguration)
               ELSE [unit EXCEPT !.pc = "completion"]
    /\ UNCHANGED others

\* provider.generateCompletion throws
GenerateProviderFails(error) ==
    /\ unit.pc = "completion"
    /\ unit' = GenerateCatch([unit EXCEPT !.error = error], "provider",
                             mapProviderError(unit.provider, error))
    /\ UNCHANGED others

\* provider.generateCompletion returns content, and parseWorkoutResponse
GenerateCompletion(content) ==
    /\ unit.pc = "completion"
    /\ LET generated == parseWorkoutResponse(content)
       IN unit' = IF TrimText(content) = <<>>
                    THEN GenerateCatch(unit, "empty", MsgEmptyResponse)
                  ELSE IF generated.t = "throw"
                    THEN GenerateCatch(unit, "parse", generated.message)
                  ELSE [unit EXCEPT !.pc = "create"]
    /\ UNCHANGED others

\* prisma.workout.create and the 201 response
GenerateCreate(dbOk) ==
    /\ unit.pc = "create"
    /\ unit' = IF ~dbOk THEN GenerateCatch(unit, "persistence", "persistence error")
               ELSE [unit EXCEPT !.pc = "done", !.http = 201,
                                 !.rows = {[userId |-> unit.userId, status |-> "generated"]}]
    /\ UNCHANGED others

\* One POST /api/workout/generate, by user 1, by user 2 or without a session.
InitGenerate ==
    /\ users = [u \in Users |-> ConnectedUser]
    /\ WorkoutIdle
    /\ readings = [k \in Users \X Days |-> NoReading]
    /\ HealthIdle
    /\ ActivitiesIdle
    /\ fitness \in SUBSET {[id |-> u, userId |-> u, profile |-> StoredFitness] : u \in Users}
    /\ FitIdle
    /\ SyncIdle
    /\ unit = IdleGenerate

NextGenerate ==
    \/ \E u \in {0} \cup Users, provider \in AIProviders, jsonOk \in BOOLEAN,
          body \in GenerateBodies : GenerateBegin(u, provider, jsonOk, body)
    \/ \E dbOk \in BOOLEAN, keyOk \in BOOLEAN : GenerateContext(dbOk, keyOk)
    \/ \E error \in ProviderErrors : GenerateProviderFails(error)
    \/ \E content \in {<<>>, <<"blank">>, <<"W">>, <<"fence", "json", "newline", "E", "newline", "fence">>,
                       <<"x">>, <<"B">>, <<"B0">>, <<"N">>, <<"W", "x">>} :
          GenerateCompletion(content)
    \/ \E dbOk \in BOOLEAN : GenerateCreate(dbOk)

SpecGenerate == InitGenerate /\ [][NextGenerate]_vars

------------------------------------------------------------------------
(* createRawGarminClient and tryLogin: src/server/sync.ts.  unit holds the
   loop of createRawGarminClient: the candidate constructors the module
   exports, the attempt at hand, lastError, and the result. *)

CandidateConstructors == <<"GarminConnect", "Garmin", "default">>
ConstructorArgVariants == <<"none", "positional", "object">>
LoginMethods == <<"login", "authenticate", "connect", "signIn">>
LoginArgVariants == <<"positional", "object", "none">>

MsgUnavailable ==
    "garmin-connect package is unavailable in this environment. Install dependency and retry."
MsgNoLoginMethod == "No compatible login method found on garmin-connect client."

\* a thrown null: not an Error, and falsy
ThrownNull == Raise("value", "null", 0)

\* let lastError = null
NoError == [t |-> "none", message |-> "null"]

\* if (lastError)
Truthy(error) == error # NoError /\ error # ThrownNull

\* tryLogin(client, email, password): its outcome, the calls it made and the
\* errors raised on the way, its own included
tryLogin(client) ==
    LET RECURSIVE loop(_, _, _, _, _)
        loop(i, j, lastError, calls, errors) ==
            IF i > Len(LoginMethods)
              THEN [outcome |-> Raise("Error", MsgNoLoginMethod, 0), calls |-> calls,
                    errors |-> Append(errors, Raise("Error", MsgNoLoginMethod, 0))]
            ELSE IF ~Method(client, LoginMethods[i]).callable
              THEN loop(i + 1, 1, NoError, calls, errors)
            ELSE IF j > Len(LoginArgVariants)
              THEN IF Truthy(lastError)
                     THEN [outcome |-> lastError, calls |-> calls, errors |-> errors]
                     ELSE loop(i + 1, 1, NoError, calls, errors)
            ELSE LET outcome == Method(client, LoginMethods[i]).outcomes[j]
                     called == Append(calls, <<LoginMethods[i], LoginArgVariants[j]>>)
                 IN IF outcome.t = "return"
                      THEN [outcome |-> outcome, calls |-> called, errors |-> errors]
                      ELSE loop(i, j + 1, outcome, called, Append(errors, outcome))
    IN loop(1, 1, NoError, <<>>, <<>>)

\* error instanceof Error ? error.message : String(error), classified
classifyThrown(error) == classifyGarminError(error.message)

LoggedIn == Returned(Undefined)

\* what a login method of the external client may do with one argument shape
LoginErrors ==
    { Raise("Error", "Request failed with status code 401", 0),
      Raise("Error", "Too many failed authentication attempts", 0),
      Raise("Error", "Could not CONNECT: 429", 0),
      Raise("Error", "socket hang up", 0),
      ThrownNull }

\* the external clients: each login alias absent, or present with its answer
\* to the three argument shapes
LoginClients ==
    [login : {Absent,
              Callable(<<LoggedIn, LoggedIn, LoggedIn>>),
              Callable(<<Raise("Error", "Request failed with status code 401", 0),
                         Raise("Error", "Too many failed authentication attempts", 0),
                         LoggedIn>>),
              Callable(<<Raise("Error", "Request failed with status code 401", 0),
                         Raise("Error", "socket hang up", 0),
                         Raise("Error", "Could not CONNECT: 429", 0)>>),
              Callable(<<Raise("Error", "socket hang up", 0),
                         Raise("Error", "socket hang up", 0),
                         Raise("Error", "network error", 0)>>),
              Callable(<<Raise("Error", "Could not CONNECT: 429", 0),
                         Raise("Error", "Could not CONNECT: 429", 0),
                         ThrownNull>>)},
     authenticate : {Absent,
                     Callable(<<LoggedIn, LoggedIn, LoggedIn>>),
                     Callable(<<Raise("Error", "429 Too Many Requests", 0),
                                Raise("Error", "429 Too Many Requests", 0),
                                Raise("Error", "Too many failed authentication attempts", 0)>>)},
     connect : {Absent,
                Callable(<<ThrownNull, Raise("Error", "network error", 0), LoggedIn>>)},
     signIn : {Absent, Callable(<<ThrownNull, ThrownNull, ThrownNull>>)}]

\* what new Candidate(...args) may throw
ConstructorErrors ==
    { Raise("Error", "Invalid network credential", 0),
      Raise("Error", "socket hang up", 0) }

NoClient == [login |-> Absent, authenticate |-> Absent, connect |-> Absent, signIn |-> Absent]

IdleRaw ==
    [pc |-> "idle", exported |-> {}, candidate |-> 0, args |-> 0,
     lastError |-> NoError, raised |-> NoError,
     attempts |-> <<>>, constructed |-> FALSE, client |-> NoClient, workable |-> FALSE,
     success |-> FALSE, message |-> "", status |-> 0]

\* the attempt after (candidate, args) in the nested loops, <<0, 0>> when the
\* loops are over; candidates that are not functions are skipped
NextAttempt(exported, candidate, args) ==
    IF candidate >= 1 /\ args < Len(ConstructorArgVariants)
      THEN <<candidate, args + 1>>
      ELSE LET rest == {c \in (candidate + 1)..Len(CandidateConstructors) :
                           CandidateConstructors[c] \in exported}
           IN IF rest = {} THEN <<0, 0>>
              ELSE <<CHOOSE c \in rest : \A d \in rest : c <= d, 1>>

\* go on to the next attempt, or classify lastError and return the failure
RawContinue(rec) ==
    LET next == NextAttempt(rec.exported, rec.candidate, rec.args)
    IN IF next = <<0, 0>>
         THEN [rec EXCEPT !.pc = "done", !.success = FALSE,
                          !.message = classifyThrown(rec.lastError).message,
                          !.status = classifyThrown(rec.lastError).status]
         ELSE [rec EXCEPT !.pc = "construct", !.candidate = next[1], !.args = next[2]]

\* createRawGarminClient is called: the import, and the loops up to the first
\* construction
RawStart(imported, exported) ==
    /\ unit.pc = "idle"
    /\ unit' = IF ~imported
                 THEN [unit EXCEPT !.pc = "done", !.message = MsgUnavailable, !.status = 500]
                 ELSE RawContinue([unit EXCEPT !.exported = exported])
    /\ UNCHANGED others

\* new GarminCtor(...constructorArgs) throws
RawConstructThrows(error) ==
    /\ unit.pc = "construct"
    /\ unit' = RawContinue([unit EXCEPT
                   !.attempts = Append(@, <<unit.candidate, unit.args>>),
                   !.constructed = FALSE, !.client = NoClient,
                   !.lastError = error, !.raised = error])
    /\ UNCHANGED others

\* new GarminCtor(...constructorArgs) returns a client, and tryLogin on it
RawConstructAndLogin(client) ==
    /\ unit.pc = "construct"
    /\ LET login == tryLogin(client)
           rec == [unit EXCEPT
                      !.attempts = Append(@, <<unit.candidate, unit.args>>),
                      !.constructed = TRUE, !.client = client,
                      !.workable = @ \/ \E i \in DOMAIN LoginMethods :
                                           /\ Method(client, LoginMethods[i]).callable
                                           /\ \E j \in DOMAIN LoginArgVariants :
                                                 Method(client, LoginMethods[i]).outcomes[j].t = "return"]
       IN unit' = IF login.outcome.t = "return"
                    THEN [rec EXCEPT !.pc = "done", !.success = TRUE, !.status = 200]
                    ELSE RawContinue([rec EXCEPT
                                         !.lastError = login.outcome,
                                         !.raised = login.errors[Len(login.errors)]])
    /\ UNCHANGED others

\* One createRawGarminClient call on one garmin-connect module.
InitRaw ==
    /\ OthersIdle
    /\ unit = IdleRaw

NextRaw ==
    \/ \E imported \in BOOLEAN,
          exported \in SUBSET {CandidateConstructors[c] : c \in DOMAIN CandidateConstructors} :
          RawStart(imported, exported)
    \/ \E error \in ConstructorErrors : RawConstructThrows(error)
    \/ \E client \in LoginClients : RawConstructAndLogin(client)

SpecRaw == InitRaw /\ [][NextRaw]_vars

------------------------------------------------------------------------
(* fetchActivitiesInDateRange: src/server/sync.ts.  An array is written as
   its runs <<item, count>> of equal items, and the collected array as the
   number of copies of each item it holds; an instant is characterised by
   its UTC calendar day (day 0 is the day before day 1). *)

MaxPages == 30
limit == 100

\* a date-time text that new Date() parses to an instant of the day
DateTime(day) == [t |-> "string", v |-> "date-time", numeric |-> FALSE, day |-> day]

\* new Date(candidate) of a string or a finite number: <<day>>, or <<>> when
\* the Date is invalid or the candidate is neither
InstantOf(candidate) ==
    IF candidate.t = "string" /\ "day" \in DOMAIN candidate THEN <<candidate.day>>
    ELSE IF candidate.t = "number" THEN <<Trunc(candidate.v)>>
    ELSE <<>>

\* extractActivityDate(raw)
extractActivityDate(raw) ==
    LET candidates == <<Get(raw, "startTimeLocal"), Get(raw, "startTimeGMT"),
                        Get(raw, "activityDate"), Get(raw, "startTime")>>
        parsed == {i \in DOMAIN candidates : InstantOf(candidates[i]) # <<>>}
    IN IF ~IsObject(raw) \/ parsed = {} THEN <<>>
       ELSE InstantOf(candidates[CHOOSE i \in parsed : \A j \in parsed : i <= j])

\* isDateWithinRange(date, startDate, endDate), for dates that parse
isDateWithinRange(day, startDate, endDate) ==
    day >= parseDateOnly(startDate) /\ day <= parseDateOnly(endDate)

\* normalizeActivityResponse(value), as runs
normalizeActivityResponse(value) ==
    IF value.t = "array" THEN value.items
    ELSE IF ~IsObject(value) THEN <<>>
    ELSE LET listKeys == <<"activities", "activityList", "items">>
             lists == {i \in DOMAIN listKeys : Get(value, listKeys[i]).t = "array"}
         IN IF lists = {} THEN <<>>
            ELSE Get(value, listKeys[CHOOSE i \in lists : \A j \in lists : i <= j]).items

\* array.length
RunsLength(runs) ==
    LET RECURSIVE sum(_)
        sum(i) == IF i > Len(runs) THEN 0 ELSE runs[i][2] + sum(i + 1)
    IN sum(1)

\* the activities the external service may list
DatedActivity(day) == Obj([startTimeLocal |-> DateTime(day)])
GmtActivity(day) == Obj([startTimeLocal |-> Str("n/a"), startTimeGMT |-> DateTime(day)])
EpochActivity(day) == Obj([activityDate |-> JNull, startTime |-> Num(day * 10 + 5)])
UndatedActivity == Obj([activityName |-> Str("No Date")])

PagedActivities ==
    {DatedActivity(d) : d \in 0..(MaxDay + 1)}
    \cup {GmtActivity(MaxDay + 1), EpochActivity(0), UndatedActivity, Str("not an activity")}

\* what invokeMethod(client, ["getActivities"], ...) may give for a page
\* requested from a range that starts on day s and ends on day e
PageOutcomes(s, e) ==
    { Raise("Error", "network error", 0),
      Returned(Arr(<<>>)),
      Returned(JNull),
      Returned(Obj([total |-> Num(0)])),
      Returned(Arr(<< <<DatedActivity(e), limit>> >>)),
      Returned(Obj([activityList |-> Arr(<< <<DatedActivity(s), limit - 2>>,
                                            <<UndatedActivity, 1>>,
                                            <<Str("not an activity"), 1>>,
                                            <<GmtActivity(MaxDay + 1), 1>> >>)])),
      Returned(Arr(<< <<DatedActivity(s), 1>> >>)),
      Returned(Arr(<< <<DatedActivity(e), limit - 1>>, <<EpochActivity(0), 1>> >>)) }

IdlePaged ==
    [pc |-> "idle", startDate |-> formatDate(1), endDate |-> formatDate(1),
     page |-> 0, offset |-> 0, requests |-> 0,
     collected |-> [item \in PagedActivities |-> 0],
     length |-> 0, oldest |-> <<>>, threw |-> FALSE]

\* fetchActivitiesInDateRange is called on a client that has getActivities,
\* or on one that has not (fallbackHttpRequest knows no "activities")
PagedStart(startDate, endDate, hasPagedActivitiesMethod) ==
    /\ unit.pc = "idle"
    /\ unit' = IF hasPagedActivitiesMethod
                 THEN [unit EXCEPT !.pc = "page", !.startDate = startDate,
                                   !.endDate = endDate]
                 ELSE [unit EXCEPT !.pc = "done", !.startDate = startDate,
                                   !.endDate = endDate, !.threw = TRUE]
    /\ UNCHANGED others

\* the body of the loop without the break on a page shorter than limit
PagedFetchNoShortPageBreak(outcome) ==
    /\ unit.pc = "page"
    /\ LET pageActivities ==
               IF outcome.t = "throw" THEN <<>> ELSE normalizeActivityResponse(outcome.value)
           dated == {i \in DOMAIN pageActivities :
                        extractActivityDate(pageActivities[i][1]) # <<>>}
           days == {extractActivityDate(pageActivities[i][1])[1] : i \in dated}
           oldestActivityDate ==
               IF days = {} THEN <<>> ELSE <<CHOOSE d \in days : \A x \in days : d <= x>>
           rec == [unit EXCEPT !.requests = @ + 1,
                               !.length = RunsLength(pageActivities),
                               !.oldest = oldestActivityDate]
           added == [item \in PagedActivities |->
                        unit.collected[item]
                        + RunsLength(SelectSeq(pageActivities,
                              LAMBDA run :
                                  /\ run[1] = item
                                  /\ extractActivityDate(item) # <<>>
                                  /\ isDateWithinRange(extractActivityDate(item)[1],
                                                       unit.startDate, unit.endDate)))]
       IN unit' =
            IF outcome.t = "throw" THEN [rec EXCEPT !.pc = "done", !.threw = TRUE]
            ELSE IF RunsLength(pageActivities) = 0 THEN [rec EXCEPT !.pc = "done"]
            ELSE IF dated # {} /\ (parseDateOnly(unit.startDate) = 0
                                   \/ parseDateOnly(unit.endDate) = 0)
              THEN [rec EXCEPT !.pc = "done", !.threw = TRUE]
            ELSE IF /\ oldestActivityDate # <<>>
                    /\ ~isDateWithinRange(oldestActivityDate[1], unit.startDate, unit.endDate)
                    /\ oldestActivityDate[1] < parseDateOnly(unit.startDate)
              THEN [rec EXCEPT !.pc = "done", !.collected = added]
            ELSE IF unit.page + 1 >= MaxPages
              THEN [rec EXCEPT !.pc = "done", !.collected = added, !.page = @ + 1]
            ELSE [rec EXCEPT !.collected = added, !.page = @ + 1,
                             !.offset = @ + RunsLength(pageActivities)]
    /\ UNCHANGED others

\* one turn of the loop: the awaited invokeMethod, the page's items, the
\* three breaks and the loop's own bound
PagedFetch(outcome) ==
    /\ unit.pc = "page"
    /\ LET pageActivities ==
               IF outcome.t = "throw" THEN <<>> ELSE normalizeActivityResponse(outcome.value)
           dated == {i \in DOMAIN pageActivities :
                        extractActivityDate(pageActivities[i][1]) # <<>>}
           days == {extractActivityDate(pageActivities[i][1])[1] : i \in dated}
           oldestActivityDate ==
               IF days = {} THEN <<>> ELSE <<CHOOSE d \in days : \A x \in days : d <= x>>
           rec == [unit EXCEPT !.requests = @ + 1,
                               !.length = RunsLength(pageActivities),
                               !.oldest = oldestActivityDate]
           added == [item \in PagedActivities |->
                        unit.collected[item]
                        + RunsLength(SelectSeq(pageActivities,
                              LAMBDA run :
                                  /\ run[1] = item
                                  /\ extractActivityDate(item) # <<>>
                                  /\ isDateWithinRange(extractActivityDate(item)[1],
                                                       unit.startDate, unit.endDate)))]
       IN unit' =
            IF outcome.t = "throw" THEN [rec EXCEPT !.pc = "done", !.threw = TRUE]
            ELSE IF RunsLength(pageActivities) = 0 THEN [rec EXCEPT !.pc = "done"]
            ELSE IF dated # {} /\ (parseDateOnly(unit.startDate) = 0
                                   \/ parseDateOnly(unit.endDate) = 0)
              THEN [rec EXCEPT !.pc = "done", !.threw = TRUE]
            ELSE IF /\ oldestActivityDate # <<>>
                    /\ ~isDateWithinRange(oldestActivityDate[1], unit.startDate, unit.endDate)
                    /\ oldestActivityDate[1] < parseDateOnly(unit.startDate)
              THEN [rec EXCEPT !.pc = "done", !.collected = added]
            ELSE IF RunsLength(pageActivities) < limit
              THEN [rec EXCEPT !.pc = "done", !.collected = added]
            ELSE IF unit.page + 1 >= MaxPages
              THEN [rec EXCEPT !.pc = "done", !.collected = added, !.page = @ + 1]
            ELSE [rec EXCEPT !.collected = added, !.page = @ + 1,
                             !.offset = @ + RunsLength(pageActivities)]
    /\ UNCHANGED others

\* One fetchActivitiesInDateRange call.
InitPaged ==
    /\ OthersIdle
    /\ unit = IdlePaged

NextPaged ==
    \/ \E startDate \in {formatDate(d) : d \in Days} \cup {[day |-> 0, canonical |-> FALSE]},
          endDate \in {formatDate(d) : d \in Days} \cup {[day |-> 0, canonical |-> FALSE]},
          hasPagedActivitiesMethod \in BOOLEAN :
          PagedStart(startDate, endDate, hasPagedActivitiesMethod)
    \/ \E outcome \in PageOutcomes(parseDateOnly(unit.startDate), parseDateOnly(unit.endDate)) :
          PagedFetch(outcome)

SpecPaged == InitPaged /\ [][NextPaged]_vars

------------------------------------------------------------------------
(* POST /api/garmin/connect and POST /api/garmin/disconnect.  unit holds the
   connect request; a disconnect request is one step. *)

\* the row a registration creates: garmin_connected false, no token
DisconnectedUser == [garminConnected |-> FALSE, garminOauthToken |-> NoToken]

IdleConnect ==
    [pc |-> "idle", userId |-> 0, http |-> 0, encryptedToken |-> NoToken]

\* connect POST: session, body and credentials checks, up to the awaited
\* createGarminConnection
ConnectBegin(u, jsonOk, credentialsGiven) ==
    /\ unit.pc \in {"idle", "done", "thrown"}
    /\ LET rec == [IdleConnect EXCEPT !.userId = u]
       IN unit' = IF u = 0 THEN [rec EXCEPT !.pc = "done", !.http = 401]
                  ELSE IF ~jsonOk \/ ~credentialsGiven
                    THEN [rec EXCEPT !.pc = "done", !.http = 400]
                  ELSE [rec EXCEPT !.pc = "connect"]
    /\ UNCHANGED users

\* createGarminConnection: createRawGarminClient, then encryptTokenPayload
\* with a fresh iv (which throws when the encryption key is not configured)
ConnectLogin(login, keyOk, iv) ==
    /\ unit.pc = "connect"
    /\ unit' = IF login # "ok"
                 THEN [unit EXCEPT !.pc = "done", !.http = classifyGarminError(login).status]
               ELSE IF ~keyOk THEN [unit EXCEPT !.pc = "thrown", !.http = 500]
               ELSE [unit EXCEPT !.pc = "update",
                                 !.encryptedToken = Token(encryptTokenPayload(<<"payload">>, iv))]
    /\ UNCHANGED users

\* prisma.user.update({ data: { garminConnected: true, garminOauthToken } })
ConnectUpdate(dbOk) ==
    /\ unit.pc = "update"
    /\ IF ~dbOk
         THEN /\ unit' = [unit EXCEPT !.pc = "thrown", !.http = 500]
              /\ UNCHANGED users
         ELSE /\ users' = [users EXCEPT ![unit.userId] =
                              [garminConnected |-> TRUE,
                               garminOauthToken |-> unit.encryptedToken]]
              /\ unit' = [unit EXCEPT !.pc = "done", !.http = 200]

\* a disconnect that clears the flag and leaves the token
DisconnectKeepsToken(u, dbOk) ==
    /\ u # 0
    /\ dbOk
    /\ users' = [users EXCEPT ![u].garminConnected = FALSE]
    /\ UNCHANGED unit

\* disconnect POST: prisma.user.update({ data: { garminConnected: false,
\* garminOauthToken: null } }); without a session (401) or when the update
\* rejects, nothing is written
Disconnect(u, dbOk) ==
    /\ u # 0
    /\ dbOk
    /\ users' = [users EXCEPT ![u] = DisconnectedUser]
    /\ UNCHANGED unit

\* Connect, disconnect and sync requests of user 1 and connect and disconnect
\* requests of user 2, interleaved, from the rows registration creates.
InitConnection ==
    /\ users = [u \in Users |-> DisconnectedUser]
    /\ WorkoutIdle
    /\ readings = [k \in Users \X Days |-> NoReading]
    /\ HealthIdle
    /\ ActivitiesIdle
    /\ FitnessIdle
    /\ SyncIdle
    /\ unit = IdleConnect

NextConnection ==
    \/ \E u \in {0} \cup Users, jsonOk \in BOOLEAN, credentialsGiven \in BOOLEAN :
          ConnectBegin(u, jsonOk, credentialsGiven)
          /\ UNCHANGED <<workoutVars, healthVars, activityVars, fitnessVars, sync>>
    \/ \E login \in {"ok", "Request failed with status code 401", "network error"},
          keyOk \in BOOLEAN, iv \in {[i \in 1..IV_LENGTH |-> i], [i \in 1..IV_LENGTH |-> 0]} :
          ConnectLogin(login, keyOk, iv)
          /\ UNCHANGED <<workoutVars, healthVars, activityVars, fitnessVars, sync>>
    \/ \E dbOk \in BOOLEAN :
          ConnectUpdate(dbOk)
          /\ UNCHANGED <<workoutVars, healthVars, activityVars, fitnessVars, sync>>
    \/ \E u \in {0} \cup Users, dbOk \in BOOLEAN :
          Disconnect(u, dbOk)
          /\ UNCHANGED <<workoutVars, healthVars, activityVars, fitnessVars, sync>>
    \/ \E handler \in SyncHandlers :
          SyncBegin(handler, 1, TRUE, formatDate(1), formatDate(1))
          /\ UNCHANGED <<users, workoutVars, unit>>
    \/ SyncLookup(TRUE) /\ UNCHANGED <<users, workoutVars, unit>>
    \/ \E login \in {"ok", "network error"} :
          SyncCreateContext(TRUE, login) /\ UNCHANGED <<users, workoutVars, unit>>
    \/ \E login \in {"ok", "network error"} :
          ActResolve(TRUE, login)
          /\ UNCHANGED <<users, workoutVars, healthVars, fitnessVars, sync, unit>>
    \/ ActFetch(FALSE) /\ UNCHANGED <<users, workoutVars, healthVars, fitnessVars, sync, unit>>
    \/ \E login \in {"ok", "network error"} :
          HealthResolve(TRUE, login)
          /\ UNCHANGED <<users, workoutVars, activityVars, fitnessVars, sync, unit>>
    \/ HealthFetch(Obj([restingHeartRate |-> Num(505)]),
                   Obj([hrvSummary |-> Obj([weeklyAvg |-> NumStr(605)])]), Undefined)
          /\ UNCHANGED <<users, workoutVars, activityVars, fitnessVars, sync, unit>>
    \/ HealthUpsert(TRUE)
          /\ UNCHANGED <<users, workoutVars, activityVars, fitnessVars, sync, unit>>
    \/ \E login \in {"ok", "network error"} :
          FitResolve(1, TRUE, login)
          /\ UNCHANGED <<users, workoutVars, healthVars, activityVars, sync, unit>>
    \/ \E predictionsRaw \in RoutePredictionResponses :
          FitPredictions(1, predictionsRaw)
          /\ UNCHANGED <<users, workoutVars, healthVars, activityVars, sync, unit>>
    \/ FitVolume(1, Arr(<<>>))
          /\ UNCHANGED <<users, workoutVars, healthVars, activityVars, sync, unit>>
    \/ FitUpsert(1, TRUE)
          /\ UNCHANGED <<users, workoutVars, healthVars, activityVars, sync, unit>>
    \/ SyncJoin /\ UNCHANGED <<users, workoutVars, unit>>
    \/ \E dbOk \in BOOLEAN : SyncUpdate(dbOk) /\ UNCHANGED <<users, workoutVars, unit>>

SpecConnection == InitConnection /\ [][NextConnection]_vars

------------------------------------------------------------------------
(* Specification of parseWorkoutResponse *)

MaxRawLen == 3

\* parseWorkoutResponse of a text, and of the text inside a fenced block.
InitParse ==
    /\ OthersIdle
    /\ \E raw \in UNION {[1..n -> TextUnits] : n \in 0..MaxRawLen} :
          unit = [pc |-> "idle", raw |-> raw]

ParseCall(opening, closing) ==
    /\ unit.pc = "idle"
    /\ unit' = [pc |-> "done", raw |-> unit.raw, fenced |-> opening \o unit.raw \o closing,
                plain |-> parseWorkoutResponse(unit.raw),
                result |-> parseWorkoutResponse(opening \o unit.raw \o closing)]
    /\ UNCHANGED others

NextParse ==
    \E opening \in {<<"fence", "newline">>, <<"fence", "json", "newline">>, <<"blank", "fence", "json", "blank", "newline">>},
       closing \in {<<"newline", "fence">>, <<"fence">>, <<"newline", "fence", "newline">>} :
       ParseCall(opening, closing)

SpecParse == InitParse /\ [][NextParse]_vars

------------------------------------------------------------------------
(* Claims about the workout decision routes *)

Terminal(status) == status \in {"uploaded", "rejected"}

\* C1: once a workout's status is uploaded or rejected, no accept or reject
\* request (handled one at a time) changes its status again.
C1_TerminalStatusNeverChanges ==
    [][\A w \in WorkoutIds :
          Terminal(workouts[w].status) => workouts'[w].status = workouts[w].status]_vars

\* an accept request r ends in this step while resolving the adapter or
\* uploading, i.e. its upload failed
UploadFailsInStep(r) ==
    /\ req[r].kind = "accept" /\ req[r].pc \in {"resolve", "upload"}
    /\ req'[r].pc = "idle"
    /\ resp'.pc = "done"

\* C2: the step in which an accept request's upload fails (adapter not
\* resolved, or uploadWorkout throws) ends the request with a failure status
\* without any write, and leaves the workout generated with its
\* garminWorkoutId unchanged; a request never goes on after a failed upload;
\* and a workout's status turns uploaded only in the update step of a request
\* whose upload returned success.
C2_FailedUploadKeepsGenerated ==
    [][/\ \A r \in ReqIds :
            UploadFailsInStep(r)
            => /\ resp'.upload = "failed" /\ resp'.http >= 400 /\ ~resp'.wrote
               /\ workouts' = workouts
               /\ workouts'[req[r].workoutId].status = "generated"
       /\ \A r \in ReqIds : req'[r].upload # "failed"
       /\ \A w \in WorkoutIds :
            (workouts[w].status # "uploaded" /\ workouts'[w].status = "uploaded")
            => \E r \in ReqIds :
                  /\ req[r].kind = "accept" /\ req[r].workoutId = w
                  /\ req[r].pc = "update" /\ req[r].upload = "ok"
                  /\ resp'.wrote /\ resp'.http = 200]_vars

\* after an accept whose upload failed, a later accept of the same workout
\* passed the status guard and its upload returned success
C2_Witness ==
    \E r \in ReqIds :
        /\ resp.kind = "accept" /\ resp.pc = "done" /\ resp.upload = "failed"
        /\ req[r].kind = "accept" /\ req[r].pc = "update" /\ req[r].upload = "ok"
        /\ req[r].workoutId = resp.workoutId
        /\ workouts[resp.workoutId].status = "generated"

\* C3: an accept request that reads a stored status other than generated is
\* refused with 400 in that very step (it never becomes a running request),
\* has called uploadWorkout zero times and written nothing, and the step
\* changes neither the workout rows nor the upload count.
C3_AcceptRefusedUnlessGenerated ==
    [][/\ \A r \in ReqIds :
            (req'[r].kind = "accept" /\ ~Free(r)') => req'[r].seen = "generated"
       /\ (resp'.kind = "accept" /\ resp'.seen \notin {"none", "generated"})
          => /\ resp'.pc = "done" /\ resp'.http = 400
             /\ resp'.uploads = 0 /\ ~resp'.wrote
             /\ (resp' # resp => workouts' = workouts /\ uploadCalls' = uploadCalls)]_vars

\* an accept request was refused on an uploaded workout
C3_Witness ==
    /\ resp.kind = "accept" /\ resp.seen = "uploaded"
    /\ resp.pc = "done" /\ resp.http = 400
    /\ workouts[resp.workoutId].status = "uploaded"


------------------------------------------------------------------------
(* Claims about syncDailyHealthData *)

Range(seq) == {seq[i] : i \in 1..Len(seq)}

HealthStartDay == parseDateOnly(health.startDate)
HealthEndDay == parseDateOnly(health.endDate)

HadReading(d) == health.before[<<health.userId, d>>].exists

RowUntouched(d) == readings[<<health.userId, d>>] = health.before[<<health.userId, d>>]

\* C4: in syncDailyHealthData over [start, end] the days are visited once each
\* in ascending order (all of them when the call succeeds); a day before the
\* end date that already has a reading is not fetched and its row stays as it
\* was; a day found without a reading is fetched; the end date is fetched
\* whether or not a reading exists for it.
C4_DaysVisitedEndDateAlwaysFetched ==
    health.pc # "idle" =>
        /\ \A i \in 1..Len(health.visited) : health.visited[i] = HealthStartDay + i - 1
        /\ Range(health.visited) \subseteq HealthStartDay..HealthEndDay
        /\ (health.pc = "done" /\ health.success)
             => Len(health.visited) = HealthEndDay - HealthStartDay + 1
        /\ \A i, j \in 1..Len(health.fetched) :
             i < j => health.fetched[i] < health.fetched[j]
        /\ \A d \in Range(health.visited) :
             /\ (d < HealthEndDay /\ HadReading(d))
                  => d \notin Range(health.fetched) /\ RowUntouched(d)
             /\ (d \in Range(health.looked) /\ ~HadReading(d)) => d \in Range(health.fetched)
        /\ (health.pc = "done" /\ health.success) => HealthEndDay \in Range(health.fetched)

\* the parts of C4 that do not concern the end date
C4_EarlierDaysSkippedWhenStored ==
    health.pc # "idle" =>
        /\ \A i \in 1..Len(health.visited) : health.visited[i] = HealthStartDay + i - 1
        /\ Range(health.visited) \subseteq HealthStartDay..HealthEndDay
        /\ (health.pc = "done" /\ health.success)
             => Len(health.visited) = HealthEndDay - HealthStartDay + 1
        /\ \A d \in Range(health.visited) :
             /\ (d < HealthEndDay /\ HadReading(d))
                  => d \notin Range(health.fetched) /\ RowUntouched(d)
             /\ (d \in Range(health.looked) /\ ~HadReading(d)) => d \in Range(health.fetched)

\* the end date is given in its canonical form
C4_CanonicalEndDateFetched ==
    (health.pc = "done" /\ health.success /\ health.endDate.canonical)
        => HealthEndDay \in Range(health.fetched)

\* a row with no metric at all
EmptyReading(row) == row.exists /\ \A field \in HealthMetricFields : row.metrics[field] = <<>>

\* C5: syncDailyHealthData writes no row for a day whose merged record has no
\* metric field: no stored row is empty, a day found empty keeps its row as it
\* was, and the synced count is the number of rows written.
C5_NoRowWithoutMetrics ==
    /\ \A k \in Users \X Days : ~EmptyReading(readings[k])
    /\ health.pc # "idle" =>
        /\ \A d \in health.emptyDays :
              /\ d \notin Range(health.written)
              /\ readings[<<health.userId, d>>] = health.before[<<health.userId, d>>]
        /\ health.pc \notin {"done", "thrown"} => health.synced = Len(health.written)
        /\ (health.pc = "done" /\ health.success) => health.synced = Len(health.written)

C5_Witness ==
    /\ health.pc = "done" /\ health.success
    /\ health.emptyDays # {}
    /\ health.synced = 1
    /\ Len(health.visited) = 2

------------------------------------------------------------------------
(* Claims about syncUserActivities *)

\* at most one row per external activity id
NoDuplicateActivities(table) ==
    \A r1, r2 \in table :
        (r1.garminActivityId # <<>> /\ r1.garminActivityId = r2.garminActivityId) => r1 = r2

\* C6: a syncUserActivities run that follows a completed run for the same
\* user and range, with the external list unchanged, leaves the table with
\* the rows and values the first run left and reports the same synced count;
\* the table never holds two rows with one external activity id.
C6_ActivitySyncIdempotent ==
    /\ NoDuplicateActivities(activities)
    /\ \A i \in 2..Len(act.results) :
         (act.results[i - 1].success /\ act.results[i].success)
           => /\ act.results[i].table = act.results[i - 1].table
              /\ act.results[i].synced = act.results[i - 1].synced

C6_Witness ==
    /\ Len(act.results) = 2
    /\ act.results[1].success /\ act.results[2].success
    /\ act.results[2].synced = 2
    /\ Cardinality(activities) = 2
    /\ \E row \in activities : row.id = 1 /\ row.data.activityName = <<"Renamed Run">>

------------------------------------------------------------------------
(* Claims about syncUserRunningFitness *)

\* the 10K time of a getRacePredictions response, in whole seconds
Predicted10k(predictionsRaw) ==
    asInteger(Get(PredictionsObject(predictionsRaw), "time10K"))

\* the response holds no predictions object, or no 10K time of a second or more
NoValid10k(predictionsRaw) ==
    \/ PredictionsObject(predictionsRaw) = JNull
    \/ Predicted10k(predictionsRaw) = <<>>
    \/ Predicted10k(predictionsRaw)[1] <= 0

FitAnswered == fit.pc \notin {"idle", "resolve", "predictions"} /\ fit.predictionsRaw # Undefined

\* C9: when the race predictions are missing or hold no valid 10K time,
\* syncUserRunningFitness returns success = false, synced = false and the
\* user's profile row is what it was before the call.
C9_NoValid10kFailsWithoutWrite ==
    (FitAnswered /\ NoValid10k(fit.predictionsRaw)) =>
        /\ fit.pc = "done"
        /\ ~fit.success /\ ~fit.synced
        /\ ~fit.wrote
        /\ ProfileOf(fitness, fit.userId) = fit.before

C9_Witness ==
    /\ FitAnswered
    /\ fit.predictionsRaw = Obj([time10K |-> Num(-25000)])
    /\ fit.before = StoredFitness
    /\ fit.pc = "done" /\ ~fit.success

SixPaces(paces) ==
    /\ paces.t = "paces"
    /\ \A name \in {"easyPaceLow", "easyPaceHigh", "tempoPace", "thresholdPace",
                    "intervalPace", "repetitionPace"} : paces[name] \in Nat

\* C10: when the 28-day sub-fetch throws after a valid 10K prediction was
\* read, the sync goes on to the upsert; once that is done the call returns
\* success and the row holds the predictions and six paces, with the three
\* volume fields null.
C10_VolumeFailureStillSucceeds ==
    fit.volumeThrew =>
        /\ ~NoValid10k(fit.predictionsRaw)
        /\ fit.pc \in {"upsert", "done"}
        /\ fit.pc = "done" => fit.success = fit.wrote
        /\ (fit.pc = "done" /\ ~fit.success) => fit.message = "persistence error"
        /\ (fit.pc = "done" /\ fit.success) =>
             /\ fit.synced
             /\ ProfileOf(fitness, fit.userId).exists
             /\ ProfileOf(fitness, fit.userId).fresh
             /\ ProfileOf(fitness, fit.userId).predictions = mapRacePredictions(
                    PredictionsObject(fit.predictionsRaw))
             /\ ProfileOf(fitness, fit.userId).predictions.predicted10kSeconds = Predicted10k(fit.predictionsRaw)
             /\ SixPaces(ProfileOf(fitness, fit.userId).paces)
             /\ ProfileOf(fitness, fit.userId).volume = NoVolume

C10_Witness ==
    /\ fit.volumeThrew
    /\ fit.pc = "done" /\ fit.success
    /\ fit.before = StoredFitness
    /\ ProfileOf(fitness, fit.userId).predictions.predicted10kSeconds = <<3000>>
    /\ ProfileOf(fitness, fit.userId).paces.easyPaceLow = 372

------------------------------------------------------------------------
(* Claims about the sync request and the three operations *)

OperationsStarted == act.pc # "idle" \/ health.pc # "idle" \/ fit.pc # "idle"

\* C7: once the operations of a sync request have started, the request has
\* made exactly one adapter resolution, made by createSyncContext before the
\* operations were called, and each operation works with that context
\* without a resolution of its own.
C7_OneAdapterResolutionPerRequest ==
    OperationsStarted =>
        /\ sync.logins = 1
        /\ act.logins + health.logins + fit.logins = 0
        /\ act.context /\ health.context /\ fit.context

\* the handler that creates a sync context resolves the adapter once
C7_ContextHandlerResolvesOnce ==
    (OperationsStarted /\ sync.handler = "context") =>
        /\ sync.logins = 1
        /\ act.logins + health.logins + fit.logins = 0
        /\ act.context /\ health.context /\ fit.context

\* C8: none of syncUserActivities, syncDailyHealthData and
\* syncUserRunningFitness throws to its caller, whatever adapter resolution,
\* the external calls and the persistence calls do; when getActivities
\* throws, syncUserActivities returns success = false with synced = 0.
C8_OperationsReturnNeverThrow ==
    /\ act.pc # "thrown"
    /\ health.pc # "thrown"
    /\ fit.pc # "thrown"
    /\ act.fetchThrew =>
         /\ act.pc = "done"
         /\ ~act.results[Len(act.results)].success
         /\ act.results[Len(act.results)].synced = 0
         /\ act.synced = 0

\* the operations called with a context return for every outcome
C8_WithContextNeverThrow ==
    /\ (act.pc # "idle" /\ act.context) => act.pc # "thrown"
    /\ (health.pc # "idle" /\ health.context) => health.pc # "thrown"
    /\ (fit.pc # "idle" /\ fit.context) => fit.pc # "thrown"
    /\ act.fetchThrew =>
         /\ act.pc = "done"
         /\ ~act.results[Len(act.results)].success
         /\ act.results[Len(act.results)].synced = 0
         /\ act.synced = 0


\* C11: whatever fitness syncs have run, one after another or together, the
\* table holds at most one running-fitness row per user, and a user whose
\* sync has returned success holds exactly one.
C11_OneProfileRowPerUser ==
    /\ \A r1, r2 \in fitness : r1.userId = r2.userId => r1 = r2
    /\ \A p \in FitProcs :
          (FitProc(p).pc = "done" /\ FitProc(p).success) =>
              Cardinality({r \in fitness : r.userId = FitProc(p).userId}) = 1

\* both calls wrote for the same user, who had no row before either began
C11_Witness ==
    /\ fit.pc = "done" /\ fit.wrote /\ ~fit.before.exists
    /\ peer.pc = "done" /\ peer.wrote /\ ~peer.before.exists
    /\ fit.userId = peer.userId
    /\ Cardinality({r \in fitness : r.userId = fit.userId}) = 1

------------------------------------------------------------------------
(* Claims about the adapter *)

\* the alias/shape pairs invokeMethod may call: callable aliases only
CallablePairs(client, methodNames, argsVariants) ==
    {pair \in (1..Len(methodNames)) \X (1..argsVariants) :
        Method(client, methodNames[pair[1]]).callable}

\* list order: alias first, argument shape second
PairBefore(a, b) == a[1] < b[1] \/ (a[1] = b[1] /\ a[2] < b[2])

\* the calls were made in list order, every callable pair before the last
\* call was tried and threw, and a returned result is that of the last call
TriedInListOrder(client, methodNames, argsVariants, invoked) ==
    LET pairs == CallablePairs(client, methodNames, argsVariants)
        calls == invoked.calls
        at(k) == CHOOSE pair \in pairs : <<methodNames[pair[1]], pair[2]>> = calls[k]
        answer(pair) == Method(client, methodNames[pair[1]]).outcomes[pair[2]]
    IN /\ \A k \in 1..Len(calls) :
             \E pair \in pairs : <<methodNames[pair[1]], pair[2]>> = calls[k]
       /\ \A k \in 1..Len(calls), l \in 1..Len(calls) : k < l => PairBefore(at(k), at(l))
       /\ \A k \in 1..Len(calls) : k < Len(calls) => answer(at(k)).t = "throw"
       /\ \A pair \in pairs :
             (\E k \in 1..Len(calls) : at(k) = pair)
             \/ (calls # <<>> /\ PairBefore(at(Len(calls)), pair)
                 /\ answer(at(Len(calls))).t = "return")
       /\ invoked.outcome.t = "return" =>
             calls # <<>> /\ invoked.outcome = answer(at(Len(calls)))
       /\ invoked.outcome.t = "throw" =>
             \A pair \in pairs : answer(pair).t = "throw"

\* C12: invokeMethod tries the aliases in list order and, for each callable
\* alias, the argument shapes in list order, and returns the result of the
\* first call that succeeds; whenever no alias/shape combination succeeds it
\* raises the missing-capability error, which no ordinary call failure is.
C12_NoSuccessRaisesCapabilityError ==
    unit.pc = "done" =>
        /\ TriedInListOrder(unit.client, OperationAliases(unit.operation),
                            OperationShapes(unit.operation), unit.invoked)
        /\ unit.invoked.outcome.t = "throw" => isMissingCapabilityError(unit.invoked.outcome)

\* what holds of invokeMethod: the order of the calls and the first success
\* as above; without a success it throws the last thrown value when that is
\* an Error, and the missing-capability error otherwise (no alias callable,
\* or the last call threw a value that is no Error)
C12_LastErrorOrMissingCapability ==
    unit.pc = "done" =>
        LET client == unit.client
            methodNames == OperationAliases(unit.operation)
            calls == unit.invoked.calls
            last == Method(client, calls[Len(calls)][1]).outcomes[calls[Len(calls)][2]]
        IN /\ TriedInListOrder(client, methodNames, OperationShapes(unit.operation),
                               unit.invoked)
           /\ unit.invoked.outcome.t = "throw" =>
                 IF calls # <<>> /\ last.name # "value"
                   THEN unit.invoked.outcome = last /\ ~isMissingCapabilityError(last)
                   ELSE /\ isMissingCapabilityError(unit.invoked.outcome)
                        /\ unit.invoked.outcome.message = MissingCapabilityMessage(methodNames)


\* no alias of the operation is callable on the client
NoAliasCallable(client, operation) ==
    \A i \in 1..Len(OperationAliases(operation)) :
        ~Method(client, OperationAliases(operation)[i]).callable

\* the client can serve the operation's HTTP fallback: it has get, and a
\* profile display name where the path needs one
CanGet(client, operation) ==
    /\ Method(client, "get").callable
    /\ operation # "hrv" => resolveClientDisplayName(client) # <<>>

C14_CanonicalFailureReportsClassifiedMessage ==
    (fit.pc = "done" /\ fit.predictionsRaw.t = "throw") =>
        /\ fit.message = classifyGarminError(fit.predictionsRaw.message).message
        /\ classifyGarminError(fit.predictionsRaw.message).status = 401 =>
              fit.message # fit.predictionsRaw.message

\* what holds instead: the operation reports the thrown message as it is
C14_CanonicalFailureReportsRawMessage ==
    (fit.pc = "done" /\ fit.predictionsRaw.t = "throw") =>
        /\ ~fit.success
        /\ fit.message = fit.predictionsRaw.message

------------------------------------------------------------------------
(* Claims about the stored token *)

\* the header of the stored bytes is incomplete, or its tag does not verify
BadHeaderOrTag(bytes) ==
    \/ Len(bytes) < HEADER_LENGTH
    \/ SubSeq(bytes, IV_LENGTH + 1, HEADER_LENGTH)
         # AuthTag(SubSeq(bytes, 1, IV_LENGTH), SubSeq(bytes, HEADER_LENGTH + 1, Len(bytes)))

\* C15: getGarminClientForUser attempts no login and fails with status 400
\* when the user is missing, not connected, without a stored token, or holds
\* a token that does not decrypt or parse; a token shorter than the 28-byte
\* header, or whose tag does not verify, is answered with the invalid stored
\* session message; any other user gets a login attempt.
C15_NoLoginWithoutUsableToken ==
    unit.pc = "done" =>
        LET user == unit.user
            result == unit.result
            unconnected == \/ user = NoUser
                           \/ ~user.garminConnected
                           \/ user.garminOauthToken = NoToken
            unreadable == \/ decryptTokenPayload(user.garminOauthToken.bytes).t = "throw"
                          \/ parseStoredPayload(
                                decryptTokenPayload(user.garminOauthToken.bytes).value).t = "throw"
        IN /\ unconnected =>
                 /\ ~result.success /\ result.status = 400 /\ ~result.attemptedLogin
                 /\ result.message = MsgNotConnected
           /\ (~unconnected /\ unreadable) =>
                 /\ ~result.success /\ result.status = 400 /\ ~result.attemptedLogin
                 /\ result.message = MsgInvalidSession
           /\ (~unconnected /\ BadHeaderOrTag(user.garminOauthToken.bytes)) =>
                 /\ ~result.success /\ ~result.attemptedLogin
                 /\ result.message = MsgInvalidSession
           /\ (~unconnected /\ ~unreadable) => result.attemptedLogin

\* a connected user whose token carries a tag that does not verify, over a
\* ciphertext that would decrypt to a stored payload
C15_Witness ==
    /\ unit.pc = "done"
    /\ unit.user # NoUser
    /\ unit.user.garminConnected
    /\ Len(unit.user.garminOauthToken.bytes) > HEADER_LENGTH
    /\ BadHeaderOrTag(unit.user.garminOauthToken.bytes)
    /\ decryptTokenPayloadUnverified(unit.user.garminOauthToken.bytes) = Returned(<<"payload">>)
    /\ unit.login = "ok"
    /\ unit.result.message = MsgInvalidSession

\* every surrogate of the text has its other half next to it
WellFormed(text) ==
    \A i \in 1..Len(text) :
        /\ text[i] = "hi" => (i < Len(text) /\ text[i + 1] = "lo")
        /\ text[i] = "lo" => (i > 1 /\ text[i - 1] = "hi")

\* the blob is nonce(12) || authTag(16) || ciphertext, and a blob whose tag
\* region was changed does not decrypt
BlobLayoutAndTag ==
    /\ unit.pc = "encrypted" =>
          LET ciphertext == Keystream(unit.iv, utf8Encode(unit.plaintext), 1)
          IN /\ Len(unit.blob) = HEADER_LENGTH + Len(ciphertext)
             /\ SubSeq(unit.blob, 1, IV_LENGTH) = unit.iv
             /\ SubSeq(unit.blob, IV_LENGTH + 1, HEADER_LENGTH) = AuthTag(unit.iv, ciphertext)
             /\ SubSeq(unit.blob, HEADER_LENGTH + 1, Len(unit.blob)) = ciphertext
    /\ (unit.pc = "done" /\ unit.region = "tag") => unit.result.t = "throw"
    /\ (unit.pc = "done" /\ unit.region = "length" /\ Len(unit.blob) < HEADER_LENGTH) =>
          unit.result.t = "throw"

C18_DecryptEncryptOfWellFormed ==
    /\ BlobLayoutAndTag
    /\ (unit.pc = "done" /\ unit.region = "none") =>
          /\ unit.result.t = "return"
          /\ WellFormed(unit.plaintext) => unit.result.value = unit.plaintext
          /\ ~WellFormed(unit.plaintext) =>
                /\ unit.result.value # unit.plaintext
                /\ utf8Encode(unit.result.value) = utf8Encode(unit.plaintext)


------------------------------------------------------------------------
(* Claims about the training paces *)

C17_PacesAreFloors ==
    unit.pc = "done" =>
        LET p == unit.predicted10kSeconds
            r == unit.result
            floorOf(v, hundredths) == v * 1000 <= p * hundredths /\ p * hundredths < (v + 1) * 1000
        IN /\ p <= 0 => r.t = "throw"
           /\ p > 0 =>
                 /\ r.t = "paces"
                 /\ floorOf(r.easyPaceLow, 124)
                 /\ floorOf(r.easyPaceHigh, 136)
                 /\ floorOf(r.tempoPace, 109)
                 /\ floorOf(r.thresholdPace, 103)
                 /\ floorOf(r.intervalPace, 95)
                 /\ floorOf(r.repetitionPace, 89)
           /\ p = 2400 =>
                 /\ r.easyPaceLow = 297 /\ r.easyPaceHigh = 326 /\ r.tempoPace = 261
                 /\ r.thresholdPace = 247 /\ r.intervalPace = 228 /\ r.repetitionPace = 213

C17_Witness ==
    /\ unit.pc = "done"
    /\ unit.predicted10kSeconds = 2400
    /\ unit.result.t = "paces"
    /\ unit.result.easyPaceLow = 297

------------------------------------------------------------------------
(* Claims about workout generation *)

\* C20: parseWorkoutResponse gives the same outcome, the same workout and
\* explanation or the same error, for a text inside a leading fence line and
\* a trailing fence as for the text itself, when the text is a JSON
\* text or any other text that does not itself begin with a fence.
C20_FencedParsesAsUnwrapped ==
    (unit.pc = "done" /\ (TrimText(unit.raw) = <<>> \/ TrimText(unit.raw)[1] # "fence")) =>
        unit.result = unit.plain

\* a fenced workout with an explanation parses to the workout, as unfenced
C20_Witness ==
    /\ unit.pc = "done"
    /\ unit.raw = <<"E">>
    /\ unit.fenced = <<"fence", "json", "newline", "E", "newline", "fence">>
    /\ unit.result.t = "return"
    /\ unit.result.value.explanation = Str("Easy day")
    /\ unit.result = unit.plain

------------------------------------------------------------------------
(* Claims about interleaved and foreign workout decisions *)

\* an accept request holds a successful uploadWorkout result for workout w
\* and has not yet written it
UploadedUnwritten(r, w) ==
    /\ req[r].kind = "accept" /\ req[r].workoutId = w
    /\ req[r].pc = "update" /\ req[r].upload = "ok"

\* C25: a generated workout is uploaded at most once: whatever the
\* interleaving of accept requests, no accept request holds a successful
\* uploadWorkout result for a workout that another accept request has
\* uploaded too (one that already wrote status uploaded, or one that holds
\* its own successful result).
C25_UploadedAtMostOnce ==
    \A w \in WorkoutIds : \A r \in ReqIds :
        UploadedUnwritten(r, w)
        => /\ workouts[w].status # "uploaded"
           /\ \A q \in ReqIds \ {r} : ~UploadedUnwritten(q, w)

\* C26: once a reject has written status rejected, the workout's status
\* never becomes uploaded, whatever accept requests are still running.
C26_RejectedNeverBecomesUploaded ==
    [][\A w \in WorkoutIds :
          workouts[w].status = "rejected" => workouts'[w].status # "uploaded"]_vars

\* C29: an accept or reject request of a user on a workout of another user
\* ends in its first step, answered 404 when the lookup answered (and as an
\* unhandled rejection when the lookup itself failed), having made no upload
\* and no write, and its step changes no workout row and no upload count; a
\* workout row is changed only by a step of a request of its owner.
C29_ForeignRequestChangesNothing ==
    [][/\ \A r \in ReqIds :
            ~Free(r)' => (req'[r].workoutId \in WorkoutIds
                          /\ req'[r].userId = workouts[req'[r].workoutId].userId)
       /\ (/\ resp'.workoutId \in WorkoutIds
           /\ resp'.userId # 0
           /\ resp'.userId # workouts[resp'.workoutId].userId)
          => /\ resp'.pc = "done" => resp'.http = 404
             /\ resp'.pc \in {"done", "thrown"}
             /\ resp'.uploads = 0 /\ ~resp'.wrote
             /\ (resp' # resp => workouts' = workouts /\ uploadCalls' = uploadCalls)
       /\ \A w \in WorkoutIds :
            workouts'[w] # workouts[w]
            => /\ resp'.wrote /\ resp'.workoutId = w
               /\ resp'.userId = workouts[w].userId
               /\ workouts'[w].userId = workouts[w].userId]_vars

\* user 2 asked to reject the workout of user 1 and was answered 404, after
\* user 1's own request had been answered, and the workout is still generated
C29_Witness ==
    /\ resp.kind = "reject" /\ resp.userId = 2 /\ resp.workoutId = 1
    /\ resp.pc = "done" /\ resp.http = 404
    /\ workouts[1].userId = 1 /\ workouts[1].status = "generated"
    /\ \E r \in ReqIds : req[r].kind = "accept" /\ req[r].userId = 1 /\ req[r].pc = "upload"

------------------------------------------------------------------------
(* Claims about the end of a sync request *)

\* the results the three operations returned to the route
SyncResults ==
    <<act.results[Len(act.results)].success, health.success, fit.success>>

AllOperationsReturned == {act.pc, health.pc, fit.pc} = {"done"}

\* C27: a sync request writes lastSyncAt only after all three operations
\* returned success, and then it attempts that write as its next step; when
\* the three have returned and one of them failed, the request is answered
\* 500 with the three results, lastSyncAt is not written, and the steps that
\* end the request leave the rows stored by the operations in place.
C27_LastSyncAtOnlyWhenAllSucceeded ==
    [][/\ sync'.stamped
          => /\ sync'.pc = "done" /\ sync'.http = 200
             /\ AllOperationsReturned'
             /\ SyncResults' = <<TRUE, TRUE, TRUE>>
       /\ (sync.pc = "ops" /\ sync'.pc # "ops")
          => /\ UNCHANGED <<readings, activities, fitness>>
             /\ (AllOperationsReturned /\ SyncResults = <<TRUE, TRUE, TRUE>>)
                => sync'.pc = "update"
             /\ (AllOperationsReturned /\ SyncResults # <<TRUE, TRUE, TRUE>>)
                => /\ sync'.pc = "done" /\ sync'.http = 500
                   /\ sync'.details = <<SyncResults>>
                   /\ ~sync'.stamped
       /\ sync.pc = "update"
          => /\ UNCHANGED <<readings, activities, fitness>>
             /\ sync'.stamped <=> (sync'.pc = "done" /\ sync'.http = 200)
       /\ sync'.details # <<>> => ~sync'.stamped]_vars

\* the request was answered with the failure of the fitness operation while
\* the health operation had stored a reading, which is still there
C27_Witness ==
    /\ sync.pc = "done" /\ sync.http = 500
    /\ sync.details = << <<TRUE, TRUE, FALSE>> >>
    /\ ~sync.stamped
    /\ health.synced > 0
    /\ \E k \in Users \X Days : k[1] = sync.userId /\ readings[k] \notin {NoReading, StoredReading}

------------------------------------------------------------------------
(* Claims about a failing day of syncDailyHealthData *)

StrictlyIncreasing(seq) == \A i, j \in DOMAIN seq : i < j => seq[i] < seq[j]

\* the call returned from its catch block because a fetch threw
HealthFetchThrew ==
    /\ health.pc = "done"
    /\ ~health.success
    /\ health.message \in {"network error", "429 Too Many Requests",
                           "Request failed with status code 401"}

\* C30: syncDailyHealthData handles its days one after another (a day is
\* fetched only after every earlier day's upsert is finished, and a day is
\* upserted only while it is the last day fetched), and when one of the three
\* fetches of a day throws, the rows of that day and of every later day are as
\* they were before the call, the rows upserted for earlier days by this call
\* are in storage, and the call returns success = false with synced = 0.
C30_FailingDayStopsTheSync ==
    /\ StrictlyIncreasing(health.fetched)
    /\ StrictlyIncreasing(health.written)
    /\ health.pc \in {"fetch", "upsert"}
       => /\ health.fetched # <<>>
          /\ \A i \in DOMAIN health.written :
                health.written[i] < health.fetched[Len(health.fetched)]
    /\ HealthFetchThrew
       => LET day == health.fetched[Len(health.fetched)]
          IN /\ health.synced = 0
             /\ \A d \in Days :
                   d >= day => readings[<<health.userId, d>>] = health.before[<<health.userId, d>>]
             /\ \A i \in DOMAIN health.written :
                   /\ health.written[i] < day
                   /\ readings[<<health.userId, health.written[i]>>].exists
                   /\ readings[<<health.userId, health.written[i]>>].syncedBy = health.call

\* a fetch of day 2 threw after day 1 had been upserted by the same call
C30_Witness ==
    /\ HealthFetchThrew
    /\ health.written = <<1>>
    /\ health.fetched = <<1, 2>>
    /\ readings[<<health.userId, 1>>].syncedBy = health.call

------------------------------------------------------------------------
(* Claims about the ownership of activity rows *)

\* C21: a step of syncUserActivities run for a user leaves every Activity row
\* of another user as it was, and every row it creates is owned by that user.
C21_SyncTouchesOwnRowsOnly ==
    [][/\ \A row \in activities : row.userId # act'.userId => row \in activities'
       /\ \A row \in activities' \ activities : row.userId = act'.userId]_vars

\* a run never writes a row of another user when the external ids it is
\* given are held by no other user's row
C21_OwnRowsOnlyForUnsharedIds ==
    [][(\A row \in activities : \A i \in DOMAIN external :
            (row.userId # act'.userId /\ Upserted(external[i]))
            => row.garminActivityId # mapActivity(external[i]).garminActivityId)
       => /\ \A row \in activities : row.userId # act'.userId => row \in activities'
          /\ \A row \in activities' \ activities : row.userId = act'.userId]_vars

------------------------------------------------------------------------
(* Claims about createRawGarminClient *)

\* some shape of login alias i logs in on the client
AliasWorks(client, i) ==
    /\ Method(client, LoginMethods[i]).callable
    /\ \E j \in DOMAIN LoginArgVariants :
          Method(client, LoginMethods[i]).outcomes[j].t = "return"

\* login alias i is present, no shape of it logs in, and its last shape
\* raised a truthy error: tryLogin rethrows it
AliasEndsLogin(client, i) ==
    /\ Method(client, LoginMethods[i]).callable
    /\ ~AliasWorks(client, i)
    /\ Truthy(Method(client, LoginMethods[i]).outcomes[Len(LoginArgVariants)])

\* C22: createRawGarminClient returns success whenever one of the clients it
\* constructed has a login alias that succeeds with some argument shape.
C22_SucceedsWhenSomeAliasWorks ==
    (unit.pc = "done" /\ unit.workable) => unit.success

\* an attempt on a constructed client succeeds exactly when an alias works
\* that no earlier alias has ended the login before, and createRawGarminClient
\* returns at the first such attempt
C22_FirstFailingAliasEndsAttempt ==
    [][(unit'.attempts # unit.attempts /\ unit'.constructed)
       => /\ unit'.success
             <=> \E i \in DOMAIN LoginMethods :
                    /\ AliasWorks(unit'.client, i)
                    /\ \A k \in 1..(i - 1) : ~AliasEndsLogin(unit'.client, k)
          /\ unit'.success => unit'.pc = "done"]_vars

AuthNeedles == {"invalid", "authentication", "credential", "401"}
RateLimitNeedles == {"429", "too many"}
NetworkNeedles == {"connect", "network"}

------------------------------------------------------------------------
(* Claims about the paged activity fetch *)

\* the page last received is empty, shorter than the page size, or its oldest
\* dated item falls before the range start
LastPageStops ==
    \/ unit.length = 0
    \/ unit.length < limit
    \/ (unit.oldest # <<>> /\ unit.oldest[1] < parseDateOnly(unit.startDate))

\* C24: fetchActivitiesInDateRange requests at most 30 pages and has ended
\* once it requested 30; it goes on to another page only after a page that is
\* not empty, holds at least 100 items and whose oldest dated item does not
\* fall before the range start, so it stops at the first page that is empty,
\* short or old; and every item it has collected has an extracted date
\* inside [start, end].
C24_PagedFetchStops ==
    /\ unit.requests <= MaxPages
    /\ unit.requests = MaxPages => unit.pc = "done"
    /\ unit.pc = "page"
       => /\ unit.requests = unit.page
          /\ unit.offset >= limit * unit.page
          /\ unit.requests > 0 => ~LastPageStops
    /\ (unit.pc = "done" /\ ~unit.threw /\ unit.requests < MaxPages) => LastPageStops
    /\ \A item \in PagedActivities :
          unit.collected[item] > 0
          => /\ extractActivityDate(item) # <<>>
             /\ extractActivityDate(item)[1] >= parseDateOnly(unit.startDate)
             /\ extractActivityDate(item)[1] <= parseDateOnly(unit.endDate)

\* thirty full pages were requested and the fetch ended by its bound alone,
\* having collected in-range items and left out the others
C24_Witness ==
    /\ unit.pc = "done" /\ ~unit.threw
    /\ unit.requests = MaxPages
    /\ ~LastPageStops
    /\ unit.length = limit + 1
    /\ unit.collected[DatedActivity(1)] > limit
    /\ unit.collected[DatedActivity(2)] > 0
    /\ unit.collected[UndatedActivity] = 0

------------------------------------------------------------------------
(* Claims about the connection state of a user *)

CredentialMatchesFlag ==
    \A u \in Users : users[u].garminConnected <=> (users[u].garminOauthToken # NoToken)

ConnectAnswers == unit' # unit /\ unit'.pc \in {"done", "thrown"}

SyncSteps == <<sync, healthVars, activityVars, fitnessVars>>' #
             <<sync, healthVars, activityVars, fitnessVars>>

\* C28: through any interleaving of connect, disconnect and sync requests a
\* user's garminConnected flag is true exactly when an encrypted credential
\* is stored: a connect that answers 200 stores the flag and the token it
\* encrypted, a connect that answers anything else and every step of a sync
\* leave the users table as it was, and the only other change of a row is a
\* disconnect, which clears both fields.
C28_ConnectedIffCredentialStored ==
    [][/\ CredentialMatchesFlag
       /\ CredentialMatchesFlag'
       /\ (ConnectAnswers /\ unit'.http = 200) =>
             /\ unit.encryptedToken # NoToken
             /\ users' = [users EXCEPT ![unit.userId] =
                             [garminConnected |-> TRUE,
                              garminOauthToken |-> unit.encryptedToken]]
       /\ (ConnectAnswers /\ unit'.http # 200) => users' = users
       /\ SyncSteps => users' = users
       /\ (users' # users /\ unit' = unit) =>
             \E u \in Users : /\ users[u].garminConnected
                                 \/ users[u] = DisconnectedUser
                              /\ users' = [users EXCEPT ![u] = DisconnectedUser]
      ]_vars

\* user 1 connected, synced to the end, disconnected, and then failed a
\* connect at the Garmin login, while user 2 stays connected
C28_Witness ==
    /\ sync.stamped
    /\ sync.userId = 1
    /\ users[1] = DisconnectedUser
    /\ users[2].garminConnected
    /\ unit.pc = "done"
    /\ unit.userId = 1
    /\ unit.http = 401

========================================================================
